---- MODULE Spec2Model ----
(***************************************************************************)
(* Text segmentation and audio-track assembly of yt-auto.                  *)
(*                                                                         *)
(*   scripts/tts_common.py    segment_text, _split_sentences,              *)
(*                            _split_by_clauses, build_track               *)
(*   scripts/utils/textseg.py segment_text, split_sentences,               *)
(*                            _split_by_commas, _is_abbreviation           *)
(*                                                                         *)
(* A Python str is a sequence of one-character strings.  A regular         *)
(* expression is modelled by the matches Python's re module finds for it   *)
(* (leftmost, greedy, non-overlapping), re.split by the list it returns.   *)
(* A pydub AudioSegment is its length in milliseconds (what len() gives)   *)
(* and its frame rate.                                                     *)
(***************************************************************************)
EXTENDS Integers, Sequences, FiniteSets, TLC

VARIABLES
    pc,          \* which call is in progress and where it stands
    full_text,   \* tts_common.segment_text: argument full_text
    max_chars,   \* tts_common.segment_text: argument max_chars
    mode,        \* tts_common.segment_text: argument mode
    segments,    \* tts_common.segment_text: the returned list
    text,        \* textseg.segment_text: argument text
    all_chunks,  \* textseg.segment_text: the returned list of (text, pause)
    valid_splits, \* textseg.split_sentences: valid_splits of each paragraph,
                 \* as the places (from 1) of the accepted punctuation marks
    sentence_chunks, \* textseg.split_sentences: for each paragraph, each sentence
                 \* text with the chunks added to chunks for it
    chunks,      \* build_track: argument chunks, each chunk's len() in ms
    pause_plan,  \* the pause tag the segmenter gave each boundary: pause_plan[i]
                 \* is pause_after of chunk i (build_track is not passed it)
    opts,        \* build_track: the keyword arguments
    chunk_i,     \* build_track: the loop index i, from 1
    track,       \* build_track: the local track
    applied,     \* what has been applied to the audio so far, in order
    audio1,      \* match_volume: argument audio1
    audio2,      \* match_volume: argument audio2
    max_diff_db, \* match_volume: argument max_diff_db, in tenths of a dB
    matched,     \* match_volume: the returned pair, <<>> before the return
    min_chars,   \* prepare_tts_text: args.min_chars
    pause_cfg,   \* prepare_tts_text: cfg["tts"]["pause"] once the config is loaded
    pp_text,     \* prepare_tts_text: the local text
    pp_segments, \* prepare_tts_text: the local segments
    manifest,    \* the lines of work/<slug>.manifest.jsonl
    effects,     \* prepare_tts_text: what main has done so far
    status,      \* prepare_tts_text: what main returned, -1 before it returns
    audio,       \* measure: argument audio, [len, dBFS, max_dBFS]
    silent_slices, \* measure: the starts of the 100 ms slices of audio that
                 \* detect_silence finds at or below -40 dBFS
    metrics,     \* measure: the returned dictionary, <<>> before the return
    oa_text,     \* generate_tts: argument text
    oa_opts,     \* generate_tts: the pauses, speed, normalize and warmth_db
    oa_pi,       \* build_audio_with_pauses: the paragraph index pi, from 1
    oa_si,       \* build_audio_with_pauses: the sentence index si, from 1
    oa_track,    \* build_audio_with_pauses: the pieces of the local track
    oa_applied,  \* build_audio_with_pauses: what was applied to the whole track
    oa_output,   \* the file at output_path
    cmp_env,     \* compare_tts.main: the arguments and what the run finds: the
                 \* input file, the scripts, the engines
    cmp_outdir,  \* the files of outdir, each "absent" or named after the run
                 \* that synthesized what is in it
    cmp_workdir, \* the names of the files in work/<slug>
    cmp_piper_result, \* compare_tts.main: piper_result.returncode, -1 before
    cmp_piper_ok, \* compare_tts.main: the local piper_ok
    cmp_report,  \* compare_tts.main: the local report, <<>> before it is built
    cmp_status   \* compare_tts.main: what main returned, -1 before it returns

ttsVars == <<full_text, max_chars, mode, segments>>

segVars == <<text, all_chunks, valid_splits, sentence_chunks>>

btVars == <<chunks, pause_plan, opts, chunk_i, track, applied>>

mvVars == <<audio1, audio2, max_diff_db, matched>>

ppVars == <<min_chars, pause_cfg, pp_text, pp_segments, manifest, effects, status>>

msVars == <<audio, silent_slices, metrics>>

oaVars == <<oa_text, oa_opts, oa_pi, oa_si, oa_track, oa_applied, oa_output>>

cmpVars == <<cmp_env, cmp_outdir, cmp_workdir, cmp_piper_result, cmp_piper_ok,
             cmp_report, cmp_status>>

vars == <<pc, ttsVars, segVars, btVars, mvVars, ppVars, msVars, oaVars, cmpVars>>

(***************************************************************************)
(* Bounds of the model.                                                    *)
(***************************************************************************)
MaxLen == 5          \* longest input text of tts_common.segment_text
MaxChars == 4        \* largest max_chars
MaxSegLen == 5       \* longest input text of textseg.segment_text
MaxChunks == 3       \* longest list of chunks given to build_track
MaxBlankLen == 5     \* longest input text made of whitespace only
MaxPpLen == 4        \* longest input file of prepare_tts_text
MaxOaLen == 5        \* longest text given to generate_tts (after a w{11})
MaxLongLen == 6      \* longest input text with runs of 599 letters

(***************************************************************************)
(* Characters and Python's str helpers.                                    *)
(***************************************************************************)
NL == "\n"

\* str.isspace / the regex class \s
Whitespace == {" ", "\n", "\t", "\r"}
IsSpace(c) == c \in Whitespace

Max(S) == CHOOSE x \in S : \A y \in S : y <= x
Min(S) == CHOOSE x \in S : \A y \in S : x <= y

\* s[a:b] of Python with 1-based inclusive bounds a..b
Slice(s, a, b) == IF a > b THEN <<>> ELSE SubSeq(s, a, b)

\* str.strip()
strip(s) ==
    LET keep == {i \in 1..Len(s) : ~IsSpace(s[i])}
    IN  IF keep = {} THEN <<>> ELSE SubSeq(s, Min(keep), Max(keep))

RECURSIVE Concat(_)
\* ''.join(parts)
Concat(parts) ==
    IF parts = <<>> THEN <<>> ELSE Head(parts) \o Concat(Tail(parts))

RECURSIVE JoinSpace(_)
\* ' '.join(parts)
JoinSpace(parts) ==
    IF parts = <<>> THEN <<>>
    ELSE IF Len(parts) = 1 THEN parts[1]
    ELSE parts[1] \o <<" ">> \o JoinSpace(Tail(parts))

\* the strings over alphabet A of length at most n
Strings(A, n) == UNION {[1..k -> A] : k \in 0..n}

(***************************************************************************)
(* tts_common.py: the three patterns.                                      *)
(***************************************************************************)
\* SENT_END: [\.!?\u3002\uFF0E]; a character outside ASCII is written by its code point
SentEndChars == {".", "!", "?", "U+3002", "U+FF0E"}
IsSentEnd(c) == c \in SentEndChars
\* SENT_END: [)\"\'\u00BB]
SentCloserChars == {")", "\"", "'", "U+00BB"}
IsSentCloser(c) == c \in SentCloserChars
\* CLAUSE_SPLIT: [,;:\u2014\u2013]
IsClauseMarker(c) == c \in {",", ";", ":", "U+2014", "U+2013"}

\* end of the longest run of characters of the class cls that starts at i
\* (i-1 when s[i] is not in the class)
RunEnd(s, i, cls) ==
    LET stop == {j \in i..Len(s) : s[j] \notin cls}
    IN  IF stop = {} THEN Len(s) ELSE Min(stop) - 1

\* PARA_SPLIT = \n\s*\n matched at p: the end of the match, 0 if none.
\* \s* is greedy, so the match ends at the last newline of the whitespace
\* run that starts after p.
ParaMatchEnd(s, p) ==
    IF p > Len(s) \/ s[p] # NL THEN 0
    ELSE LET q == {j \in p+1..RunEnd(s, p+1, Whitespace) : s[j] = NL}
         IN  IF q = {} THEN 0 ELSE Max(q)

RECURSIVE PARA_SPLIT_split(_)
\* PARA_SPLIT.split(s)
PARA_SPLIT_split(s) ==
    LET starts == {p \in 1..Len(s) : ParaMatchEnd(s, p) # 0}
    IN  IF starts = {} THEN <<s>>
        ELSE LET p == Min(starts)
                 e == ParaMatchEnd(s, p)
             IN  <<Slice(s, 1, p-1)>> \o PARA_SPLIT_split(Slice(s, e+1, Len(s)))

\* SENT_END = ([\.!?\u3002\uFF0E]+[)\"\'\u00BB]*)(\s+) matched at p: <<end of group 1,
\* end of group 2>>, <<0, 0>> if none.  Both classes and \s are disjoint,
\* so only the longest runs can match.
SentMatch(s, p) ==
    IF p > Len(s) \/ ~IsSentEnd(s[p]) THEN <<0, 0>>
    ELSE LET e == RunEnd(s, p, SentEndChars)
             c == RunEnd(s, e+1, SentCloserChars)
             w == RunEnd(s, c+1, Whitespace)
         IN  IF w > c THEN <<c, w>> ELSE <<0, 0>>

RECURSIVE SENT_END_split(_)
\* SENT_END.split(s): text, group 1, group 2, text, ..., text
SENT_END_split(s) ==
    LET starts == {p \in 1..Len(s) : SentMatch(s, p)[1] # 0}
    IN  IF starts = {} THEN <<s>>
        ELSE LET p == Min(starts)
                 m == SentMatch(s, p)
             IN  <<Slice(s, 1, p-1), Slice(s, p, m[1]), Slice(s, m[1]+1, m[2])>>
                 \o SENT_END_split(Slice(s, m[2]+1, Len(s)))

RECURSIVE CLAUSE_SPLIT_split(_)
\* CLAUSE_SPLIT.split(s): text, marker, text, ..., text
CLAUSE_SPLIT_split(s) ==
    LET starts == {p \in 1..Len(s) : IsClauseMarker(s[p])}
    IN  IF starts = {} THEN <<s>>
        ELSE LET p == Min(starts)
             IN  <<Slice(s, 1, p-1), <<s[p]>>>>
                 \o CLAUSE_SPLIT_split(Slice(s, p+1, Len(s)))

(***************************************************************************)
(* tts_common._split_sentences                                             *)
(***************************************************************************)
RECURSIVE split_sentences_loop(_, _)
\* the while loop of _split_sentences from index i (1-based) of parts
split_sentences_loop(parts, i) ==
    IF i > Len(parts) THEN <<>>
    ELSE IF i + 2 <= Len(parts) /\ parts[i+1] # <<>>
         THEN <<strip(parts[i] \o parts[i+1])>> \o split_sentences_loop(parts, i+3)
    ELSE IF strip(parts[i]) # <<>>
         THEN <<strip(parts[i])>> \o split_sentences_loop(parts, i+1)
    ELSE split_sentences_loop(parts, i+1)

RECURSIVE split_sentences_loop_no_marker(_, _)
\* the loop of _split_sentences appending parts[i] without parts[i+1]
split_sentences_loop_no_marker(parts, i) ==
    IF i > Len(parts) THEN <<>>
    ELSE IF i + 2 <= Len(parts) /\ parts[i+1] # <<>>
         THEN <<strip(parts[i])>> \o split_sentences_loop_no_marker(parts, i+3)
    ELSE IF strip(parts[i]) # <<>>
         THEN <<strip(parts[i])>> \o split_sentences_loop_no_marker(parts, i+1)
    ELSE split_sentences_loop_no_marker(parts, i+1)

\* _split_sentences losing the punctuation that ends each sentence
split_sentences_no_marker(paragraph) ==
    SelectSeq(split_sentences_loop_no_marker(SENT_END_split(paragraph), 1),
              LAMBDA x : x # <<>>)

_split_sentences(paragraph) ==
    SelectSeq(split_sentences_loop(SENT_END_split(paragraph), 1),
              LAMBDA x : x # <<>>)

(***************************************************************************)
(* tts_common._split_by_clauses                                            *)
(***************************************************************************)
RECURSIVE split_by_clauses_loop(_, _, _, _, _, _)
\* the for loop over parts from index i; current_len is tracked as in the code
split_by_clauses_loop(parts, i, clauses, current, current_len, maxc) ==
    IF i > Len(parts)
    THEN IF current # <<>> THEN Append(clauses, Concat(current)) ELSE clauses
    ELSE LET part == parts[i]
             part_len == Len(part)
         IN  IF current_len + part_len > maxc /\ current # <<>>
             THEN split_by_clauses_loop(parts, i+1,
                      Append(clauses, Concat(current)), <<part>>, part_len, maxc)
             ELSE split_by_clauses_loop(parts, i+1,
                      clauses, Append(current, part), current_len + part_len, maxc)

\* _split_by_clauses that never flushes: the sentence comes back whole
split_by_clauses_unsplit(sentence, maxc) == <<sentence>>

_split_by_clauses(sentence, maxc) ==
    split_by_clauses_loop(CLAUSE_SPLIT_split(sentence), 1, <<>>, <<>>, 0, maxc)

(***************************************************************************)
(* tts_common.segment_text                                                 *)
(***************************************************************************)
RECURSIVE pack_sentences(_, _, _, _, _, _)
\* the loop "for sent in sentences" of one paragraph, then the flush after it;
\* segs is the list segments as it stands, the result is segments afterwards
pack_sentences(sentences, k, segs, current_segment, current_length, maxc) ==
    IF k > Len(sentences)
    THEN IF current_segment # <<>>
         THEN Append(segs, JoinSpace(current_segment)) ELSE segs
    ELSE LET sent == sentences[k]
             sent_len == Len(sent)
         IN  IF sent_len > maxc
             THEN pack_sentences(sentences, k+1,
                      (IF current_segment # <<>>
                       THEN Append(segs, JoinSpace(current_segment)) ELSE segs)
                      \o _split_by_clauses(sent, maxc),
                      \* current_segment and current_length are reset only
                      \* when something was pending; otherwise they are
                      \* already [] and whatever current_length holds
                      <<>>,
                      IF current_segment # <<>> THEN 0 ELSE current_length,
                      maxc)
             ELSE IF current_length + sent_len + 1 <= maxc
             THEN pack_sentences(sentences, k+1, segs,
                      Append(current_segment, sent),
                      \* (1 if current_segment else 0) is read after the append
                      current_length + sent_len + 1, maxc)
             ELSE pack_sentences(sentences, k+1,
                      IF current_segment # <<>>
                      THEN Append(segs, JoinSpace(current_segment)) ELSE segs,
                      <<sent>>, sent_len, maxc)

\* the paragraphs without the filter "if p.strip()"
tts_paragraphs_unfiltered(t) ==
    LET raw == PARA_SPLIT_split(strip(t))
    IN  [i \in 1..Len(raw) |-> strip(raw[i])]

\* paragraphs = [p.strip() for p in PARA_SPLIT.split(full_text.strip()) if p.strip()]
tts_paragraphs(t) ==
    LET raw == PARA_SPLIT_split(strip(t))
        stripped == [i \in 1..Len(raw) |-> strip(raw[i])]
    IN  SelectSeq(stripped, LAMBDA p : p # <<>>)

\* the loop body without the branch of mode "paragraph"
segment_paragraph_by_sentence(para, segs, maxc, md) ==
    pack_sentences(_split_sentences(para), 1, segs, <<>>, 0, maxc)

\* the body of "for para in paragraphs" for one paragraph
segment_paragraph(para, segs, maxc, md) ==
    IF md = "paragraph" /\ Len(para) <= maxc
    THEN Append(segs, para)
    ELSE pack_sentences(_split_sentences(para), 1, segs, <<>>, 0, maxc)

\* the loop over the paragraphs with the sentences of all of them packed in
\* one pass: nothing is flushed at a paragraph end
segment_paragraphs_unflushed(paragraphs, i, segs, maxc, md) ==
    pack_sentences(Concat([k \in 1..Len(paragraphs) |->
                              _split_sentences(paragraphs[k])]),
                   1, segs, <<>>, 0, maxc)

RECURSIVE segment_paragraphs(_, _, _, _, _)
segment_paragraphs(paragraphs, i, segs, maxc, md) ==
    IF i > Len(paragraphs) THEN segs
    ELSE segment_paragraphs(paragraphs, i+1,
             segment_paragraph(paragraphs[i], segs, maxc, md), maxc, md)

segment_text(t, maxc, md) ==
    segment_paragraphs(tts_paragraphs(t), 1, <<>>, maxc, md)

(***************************************************************************)
(* utils/textseg.py: character classes of the patterns.                    *)
(***************************************************************************)
LowerSeq == <<"a", "b", "c", "d", "e", "f", "g", "h", "i", "j", "k", "l", "m",
              "n", "o", "p", "q", "r", "s", "t", "u", "v", "w", "x", "y", "z">>
UpperSeq == <<"A", "B", "C", "D", "E", "F", "G", "H", "I", "J", "K", "L", "M",
              "N", "O", "P", "Q", "R", "S", "T", "U", "V", "W", "X", "Y", "Z">>
Range(f) == {f[i] : i \in DOMAIN f}

\* the regex class \d
IsDigit(c) == c \in {"0", "1", "2", "3", "4", "5", "6", "7", "8", "9"}
\* str.isupper() of one character
IsUpper(c) == c \in Range(UpperSeq)
\* one element of a text that stands for a run of 599 letters x, so that a
\* sentence of more than 600 characters fits in a short sequence
LongRun == "x{599}"
\* one word character
IsWordChar(c) == c \in Range(LowerSeq) \/ IsUpper(c) \/ IsDigit(c) \/ c = "_"
\* the regex class \w, and a run of such characters
IsWord(c) == IsWordChar(c) \/ c = LongRun
\* str.lower() of one character
lower_char(c) ==
    IF IsUpper(c) THEN LowerSeq[CHOOSE i \in 1..26 : UpperSeq[i] = c] ELSE c
\* str.lower()
lower(w) == [i \in 1..Len(w) |-> lower_char(w[i])]

LongSentence == 600

RECURSIVE py_len(_)
\* len(s): the number of characters
py_len(s) ==
    IF s = <<>> THEN 0
    ELSE (IF Head(s) = LongRun THEN LongSentence - 1 ELSE 1) + py_len(Tail(s))

ABBREVIATIONS == {
    <<"e", ".", "g">>, <<"i", ".", "e">>, <<"M", "r">>, <<"M", "r", "s">>,
    <<"M", "s">>, <<"D", "r">>, <<"P", "r", "o", "f">>, <<"S", "r">>,
    <<"J", "r">>, <<"v", "s">>, <<"e", "t", "c">>, <<"N", "o">>,
    <<"F", "i", "g">>, <<"I", "n", "c">>, <<"L", "t", "d">>, <<"C", "o">>,
    <<"C", "o", "r", "p">>, <<"U", ".", "S">>, <<"U", ".", "K">>,
    <<"P", "h", ".", "D">>, <<"M", ".", "D">>, <<"B", ".", "A">>,
    <<"M", ".", "A">>, <<"D", ".", "D", ".", "S">>, <<"R", "e", "v">>,
    <<"H", "o", "n">>, <<"G", "e", "n">>, <<"C", "o", "l">>,
    <<"C", "a", "p", "t">>, <<"L", "t">>, <<"S", "g", "t">>,
    <<"A", "v", "e">>, <<"B", "l", "v", "d">>, <<"S", "t">>, <<"R", "d">>,
    <<"J", "a", "n">>, <<"F", "e", "b">>, <<"M", "a", "r">>,
    <<"A", "p", "r">>, <<"J", "u", "n">>, <<"J", "u", "l">>,
    <<"A", "u", "g">>, <<"S", "e", "p">>, <<"S", "e", "p", "t">>,
    <<"O", "c", "t">>, <<"N", "o", "v">>, <<"D", "e", "c">>,
    <<"M", "o", "n">>, <<"T", "u", "e">>, <<"W", "e", "d">>,
    <<"T", "h", "u">>, <<"F", "r", "i">>, <<"S", "a", "t">>,
    <<"S", "u", "n">>, <<"V", "o", "l">>, <<"V", "e", "r">>, <<"E", "d">>,
    <<"p">>, <<"p", "p">>, <<"c", "f">>, <<"a", "p", "p", "r", "o", "x">>,
    <<"e", "s", "t">> }

\* len(sent_text) > 600 in split_sentences

(***************************************************************************)
(* textseg.normalize_whitespace, textseg.split_paragraphs                  *)
(***************************************************************************)
RECURSIVE replace_crlf(_)
\* text.replace('\r\n', '\n')
replace_crlf(s) ==
    IF s = <<>> THEN <<>>
    ELSE IF Len(s) >= 2 /\ s[1] = "\r" /\ s[2] = NL
         THEN <<NL>> \o replace_crlf(SubSeq(s, 3, Len(s)))
    ELSE <<s[1]>> \o replace_crlf(Tail(s))

\* text.replace('\t', ' ')
replace_tab(s) == [i \in 1..Len(s) |-> IF s[i] = "\t" THEN " " ELSE s[i]]

IsBlank(c) == c \in {" ", "\t"}

\* re.sub(r'[ \t]+', ' ', text): the first character of each run stays, as ' '
collapse_blanks(s) ==
    LET keep == {i \in 1..Len(s) : ~IsBlank(s[i]) \/ i = 1 \/ ~IsBlank(s[i-1])}
        RECURSIVE pick(_)
        pick(i) == IF i > Len(s) THEN <<>>
                   ELSE IF i \in keep
                        THEN <<IF IsBlank(s[i]) THEN " " ELSE s[i]>> \o pick(i+1)
                   ELSE pick(i+1)
    IN  pick(1)

normalize_whitespace(s) == collapse_blanks(replace_tab(replace_crlf(s)))

\* re.split(r'\n\s*\n+', s): a match starts at a newline; \s* is greedy and
\* gives back until \n+ can take the last newline of the whitespace run
RECURSIVE re_split_blank_lines(_)
re_split_blank_lines(s) ==
    LET starts == {p \in 1..Len(s) : ParaMatchEnd(s, p) # 0}
    IN  IF starts = {} THEN <<s>>
        ELSE LET p == Min(starts)
                 e == ParaMatchEnd(s, p)
             IN  <<Slice(s, 1, p-1)>> \o re_split_blank_lines(Slice(s, e+1, Len(s)))

split_paragraphs(t) ==
    LET raw == re_split_blank_lines(normalize_whitespace(t))
        stripped == [i \in 1..Len(raw) |-> strip(raw[i])]
    IN  SelectSeq(stripped, LAMBDA p : p # <<>>)

(***************************************************************************)
(* textseg._is_abbreviation                                                *)
(***************************************************************************)
\* re.search(r'\b\w\.\w\.$', before), where before = text[:pos+1] has
\* length n and ends with the period
multi_dot(s, n) ==
    /\ n >= 4
    /\ s[n] = "." /\ IsWordChar(s[n-1]) /\ s[n-2] = "." /\ IsWordChar(s[n-3])
    /\ (n = 4 \/ ~IsWord(s[n-4]))

\* re.search(r'(\b\w+)\.?$', before).group(1): the run of word characters
\* that ends right before the period; <<>> when the search finds nothing
word_before(s, n) ==
    IF n < 2 \/ ~IsWord(s[n-1]) THEN <<>>
    ELSE LET brk == {j \in 1..n-1 : ~IsWord(s[j])}
         IN  SubSeq(s, (IF brk = {} THEN 1 ELSE Max(brk) + 1), n-1)

\* _is_abbreviation(text, pos) with n = pos + 1, the 1-based place of the period
_is_abbreviation(s, n) ==
    IF multi_dot(s, n) THEN TRUE
    ELSE LET word == word_before(s, n)
         IN  /\ word # <<>>
             /\ \/ word \in ABBREVIATIONS
                \/ lower(word) \in {lower(a) : a \in ABBREVIATIONS}
                \/ Len(word) = 1 /\ IsUpper(word[1])
                \* re.search(r'\d+\.\d*$', before): before ends with the period
                \/ IsDigit(s[n-1])

(***************************************************************************)
(* textseg._split_by_commas                                                *)
(***************************************************************************)
RECURSIVE re_split_commas(_)
\* re.split(r',(?!\d)', s)
re_split_commas(s) ==
    LET starts == {p \in 1..Len(s) :
                     s[p] = "," /\ (p = Len(s) \/ ~IsDigit(s[p+1]))}
    IN  IF starts = {} THEN <<s>>
        ELSE LET p == Min(starts)
             IN  <<Slice(s, 1, p-1)>> \o re_split_commas(Slice(s, p+1, Len(s)))

RECURSIVE split_by_commas_loop(_, _)
\* for i, chunk in enumerate(splits), from the 1-based index i
split_by_commas_loop(splits, i) ==
    IF i > Len(splits) THEN <<>>
    ELSE LET chunk == strip(splits[i])
         IN  IF chunk = <<>> THEN split_by_commas_loop(splits, i+1)
             ELSE << <<(IF i < Len(splits) THEN chunk \o <<",">> ELSE chunk),
                       (IF i < Len(splits) THEN "short" ELSE "none")>> >>
                  \o split_by_commas_loop(splits, i+1)

\* _split_by_commas that never splits
split_by_commas_whole(t) == << <<strip(t), "none">> >>

_split_by_commas(t) ==
    LET splits == re_split_commas(t)
    IN  IF Len(splits) <= 1 THEN << <<strip(t), "none">> >>
        ELSE split_by_commas_loop(splits, 1)

(***************************************************************************)
(* textseg.split_sentences                                                 *)
(***************************************************************************)
IsSentPunct(c) == c \in {".", "!", "?"}
QuoteParenChars == {"\"", "'", ")", "]"}
IsQuoteParen(c) == c \in QuoteParenChars

\* ([.!?])(["')\]]*)\s+ matched at p: the end of the match, 0 if none
SentenceMatchEnd(s, p) ==
    IF p > Len(s) \/ ~IsSentPunct(s[p]) THEN 0
    ELSE LET c == RunEnd(s, p+1, QuoteParenChars)
             w == RunEnd(s, c+1, Whitespace)
         IN  IF w > c THEN w ELSE 0

RECURSIVE finditer_sentence(_, _)
\* list(re.finditer(sentence_pattern, s)) from place from: each match is
\* <<match.start() + 1, match.end()>>
finditer_sentence(s, from) ==
    LET starts == {p \in from..Len(s) : SentenceMatchEnd(s, p) # 0}
    IN  IF starts = {} THEN <<>>
        ELSE LET p == Min(starts)
                 e == SentenceMatchEnd(s, p)
             IN  << <<p, e>> >> \o finditer_sentence(s, e+1)

\* valid_splits of split_sentences for the normalised paragraph s
valid_splits_of(s) ==
    SelectSeq(finditer_sentence(s, 1),
              LAMBDA m : s[m[1]] # "." \/ ~_is_abbreviation(s, m[1]))

RECURSIVE extract_sentences(_, _, _, _)
\* "for match in valid_splits" from index k, then the remaining text: for
\* each sentence text, the chunks its pass adds to chunks
extract_sentences(s, valid, k, last_end) ==
    IF k > Len(valid)
    THEN IF last_end < Len(s) /\ strip(Slice(s, last_end+1, Len(s))) # <<>>
         THEN LET remaining == strip(Slice(s, last_end+1, Len(s)))
              IN  << [sentence |-> remaining,
                      chunks |-> _split_by_commas(remaining)] >>
         ELSE <<>>
    ELSE LET sent_text == strip(Slice(s, last_end+1, valid[k][2]))
         IN  (IF sent_text = <<>> THEN <<>>
              ELSE IF py_len(sent_text) > LongSentence
                   THEN << [sentence |-> sent_text,
                            chunks |-> _split_by_commas(sent_text)] >>
              ELSE << [sentence |-> sent_text,
                       chunks |-> << <<sent_text, "medium">> >>] >>)
             \o extract_sentences(s, valid, k+1, valid[k][2])

\* what split_sentences adds to chunks, sentence by sentence, for the
\* normalised paragraph s
sentence_log(s) ==
    IF s = <<>> THEN <<>>
    ELSE IF valid_splits_of(s) = <<>>
         THEN << [sentence |-> s, chunks |-> _split_by_commas(s)] >>
    ELSE extract_sentences(s, valid_splits_of(s), 1, 0)

RECURSIVE chunks_of_log(_)
\* the list chunks after the passes of the log
chunks_of_log(log) ==
    IF log = <<>> THEN <<>> ELSE Head(log).chunks \o chunks_of_log(Tail(log))

\* "text, _ = chunks[-1]; chunks[-1] = (text, tag)" under "if chunks"
set_last_pause(chunk_list, tag) ==
    IF chunk_list # <<>>
    THEN [chunk_list EXCEPT
             ![Len(chunk_list)] = <<chunk_list[Len(chunk_list)][1], tag>>]
    ELSE chunk_list

split_sentences(paragraph) ==
    LET s == normalize_whitespace(strip(paragraph))
    IN  IF s = <<>> THEN <<>>
        ELSE IF valid_splits_of(s) = <<>> THEN _split_by_commas(s)
        ELSE set_last_pause(chunks_of_log(sentence_log(s)), "none")

(***************************************************************************)
(* textseg.segment_text                                                    *)
(***************************************************************************)
\* the body of "for i, para in enumerate(paragraphs)": para_chunks as extended
para_chunks_of(paragraphs, i) ==
    IF i < Len(paragraphs)
    THEN set_last_pause(split_sentences(paragraphs[i]), "long")
    ELSE split_sentences(paragraphs[i])

RECURSIVE textseg_loop(_, _)
textseg_loop(paragraphs, i) ==
    IF i > Len(paragraphs) THEN <<>>
    ELSE para_chunks_of(paragraphs, i) \o textseg_loop(paragraphs, i+1)

textseg_segment_text(t) == textseg_loop(split_paragraphs(t), 1)

(***************************************************************************)
(* tts_common.build_track.  An AudioSegment is [len, frame_rate]: len is   *)
(* len(segment) in milliseconds.  Seconds (pause_short, pause_medium,      *)
(* pause_long) are counted in units of 0.1 ms and speed in thousandths, so *)
(* that int(pause * 1000) and int(frame_rate / speed) truncate as they do  *)
(* in the code.                                                            *)
(***************************************************************************)
\* frame rate of the synthesized chunks (tests/_make_fixtures.py)
ChunkFrameRate == 44100
\* frame rate of AudioSegment.silent()
SilentFrameRate == 11025

Abs(x) == IF x < 0 THEN -x ELSE x

\* int(pause * 1000)
int_ms(pause) == pause \div 10

\* AudioSegment.silent(duration=ms)
silent(ms) == [len |-> ms, frame_rate |-> SilentFrameRate]

\* seg1 + seg2, seg1.append(seg2, crossfade=0): both are brought to the
\* higher frame rate and the data are concatenated
concat(seg1, seg2) ==
    [len |-> seg1.len + seg2.len,
     frame_rate |-> IF seg1.frame_rate >= seg2.frame_rate
                    THEN seg1.frame_rate ELSE seg2.frame_rate]

\* the loop body with the chunk appended directly where the gap belongs
append_chunk_without_gap(trk, chunk, k, o) ==
    LET faded == IF o.fade_ms > 0
                 THEN << [op |-> "fade", i |-> k, ms |-> o.fade_ms] >> ELSE <<>>
    IN  IF k = 1
        THEN [track |-> chunk, raised |-> FALSE,
              applied |-> faded \o << [op |-> "first", i |-> k, ms |-> 0] >>]
        ELSE IF o.crossfade_ms > 0 /\ trk.len > o.crossfade_ms
        THEN IF o.crossfade_ms > chunk.len
             THEN [track |-> trk, raised |-> TRUE, applied |-> faded]
             ELSE [track |-> [len |-> trk.len + chunk.len - o.crossfade_ms,
                              frame_rate |-> concat(trk, chunk).frame_rate],
                   raised |-> FALSE,
                   applied |-> faded \o
                       << [op |-> "crossfade", i |-> k, ms |-> o.crossfade_ms] >>]
        ELSE [track |-> concat(trk, chunk),
              raised |-> FALSE,
              applied |-> faded \o << [op |-> "gap", i |-> k, ms |-> 0] >>]

\* the loop body with the crossfade branch appending without any overlap
append_chunk_without_overlap(trk, chunk, k, o) ==
    LET faded == IF o.fade_ms > 0
                 THEN << [op |-> "fade", i |-> k, ms |-> o.fade_ms] >> ELSE <<>>
        pause_duration == int_ms(o.pause_medium)
    IN  IF k = 1
        THEN [track |-> chunk, raised |-> FALSE,
              applied |-> faded \o << [op |-> "first", i |-> k, ms |-> 0] >>]
        ELSE IF o.crossfade_ms > 0 /\ trk.len > o.crossfade_ms
        THEN [track |-> concat(trk, chunk),
              raised |-> FALSE,
              applied |-> faded \o
                  << [op |-> "crossfade", i |-> k, ms |-> 0] >>]
        ELSE [track |-> concat(concat(trk, silent(pause_duration)), chunk),
              raised |-> FALSE,
              applied |-> faded \o
                  << [op |-> "gap", i |-> k, ms |-> pause_duration] >>]

\* the body of "for i, chunk in enumerate(chunks)" for chunk k (from 1):
\* the loop body with each chunk normalized as it is joined
append_chunk_normalized(trk, chunk, k, o) ==
    LET faded == IF o.fade_ms > 0
                 THEN << [op |-> "fade", i |-> k, ms |-> o.fade_ms] >> ELSE <<>>
        normalized == IF o.normalize
                      THEN << [op |-> "normalize", i |-> k, ms |-> 0] >> ELSE <<>>
        pause_duration == int_ms(o.pause_medium)
    IN  IF k = 1
        THEN [track |-> chunk, raised |-> FALSE,
              applied |-> faded \o << [op |-> "first", i |-> k, ms |-> 0] >>
                          \o normalized]
        ELSE IF o.crossfade_ms > 0 /\ trk.len > o.crossfade_ms
        THEN IF o.crossfade_ms > chunk.len
             THEN [track |-> trk, raised |-> TRUE, applied |-> faded]
             ELSE [track |-> [len |-> trk.len + chunk.len - o.crossfade_ms,
                              frame_rate |-> concat(trk, chunk).frame_rate],
                   raised |-> FALSE,
                   applied |-> faded \o
                       << [op |-> "crossfade", i |-> k, ms |-> o.crossfade_ms] >>
                       \o normalized]
        ELSE [track |-> concat(concat(trk, silent(pause_duration)), chunk),
              raised |-> FALSE,
              applied |-> faded \o
                  << [op |-> "gap", i |-> k, ms |-> pause_duration] >>
                  \o normalized]

\* the track afterwards, what was applied, and whether append raised
\* (pydub raises ValueError when the crossfade is longer than the appended
\* segment)
append_chunk(trk, chunk, k, o) ==
    LET faded == IF o.fade_ms > 0
                 THEN << [op |-> "fade", i |-> k, ms |-> o.fade_ms] >> ELSE <<>>
        pause_duration == int_ms(o.pause_medium)
    IN  IF k = 1
        THEN [track |-> chunk, raised |-> FALSE,
              applied |-> faded \o << [op |-> "first", i |-> k, ms |-> 0] >>]
        ELSE IF o.crossfade_ms > 0 /\ trk.len > o.crossfade_ms
        THEN IF o.crossfade_ms > chunk.len
             THEN [track |-> trk, raised |-> TRUE, applied |-> faded]
             ELSE [track |-> [len |-> trk.len + chunk.len - o.crossfade_ms,
                              frame_rate |-> concat(trk, chunk).frame_rate],
                   raised |-> FALSE,
                   applied |-> faded \o
                       << [op |-> "crossfade", i |-> k, ms |-> o.crossfade_ms] >>]
        ELSE [track |-> concat(concat(trk, silent(pause_duration)), chunk),
              raised |-> FALSE,
              applied |-> faded \o
                  << [op |-> "gap", i |-> k, ms |-> pause_duration] >>]

\* abs(speed - 1.0) > 0.001
speed_differs(speed) == Abs(speed - 1000) > 1

\* int(track.frame_rate / speed)
new_frame_rate(trk, speed) == (trk.frame_rate * 1000) \div speed

\* track._spawn(track.raw_data, overrides={"frame_rate": new_frame_rate})
\*      .set_frame_rate(track.frame_rate):
\* the same frames played at new_frame_rate last len * frame_rate /
\* new_frame_rate ms (rounded to the nearest ms); converting the rate back
\* keeps the duration
adjust_speed(trk, speed) ==
    LET nfr == new_frame_rate(trk, speed)
    IN  [len |-> (2 * trk.len * trk.frame_rate + nfr) \div (2 * nfr),
         frame_rate |-> trk.frame_rate]

RECURSIVE build_chunks(_, _, _, _)
\* the whole loop over chunks from chunk k on: the track it leaves
build_chunks(cs, k, trk, o) ==
    IF k > Len(cs) THEN trk
    ELSE build_chunks(cs, k+1, append_chunk(trk, cs[k], k, o).track, o)

\* len(build_track(chunks, **o)) for a build in which append does not raise
build_track_len(cs, o) ==
    LET trk == IF cs = <<>> THEN silent(0) ELSE build_chunks(cs, 1, silent(0), o)
    IN  IF cs # <<>> /\ speed_differs(o.speed)
        THEN adjust_speed(trk, o.speed).len ELSE trk.len

(***************************************************************************)
(* tts_common.match_volume.  A float is [kind, v]: a number v in tenths of *)
(* a dB, or one of -inf, inf, nan (dBFS of digital silence is -inf).  An   *)
(* AudioSegment is [dBFS, gains]: its level and the gains apply_gain has   *)
(* given it, in order.                                                     *)
(***************************************************************************)
Num(v) == [kind |-> "num", v |-> v]
NegInf == [kind |-> "-inf", v |-> 0]
PosInf == [kind |-> "inf", v |-> 0]
NaN == [kind |-> "nan", v |-> 0]

\* a - b for levels a, b (numbers or -inf)
fsub(a, b) ==
    IF a.kind = "num" /\ b.kind = "num" THEN Num(a.v - b.v)
    ELSE IF a.kind = "-inf" /\ b.kind = "num" THEN NegInf
    ELSE IF a.kind = "num" /\ b.kind = "-inf" THEN PosInf
    ELSE NaN

\* abs(x)
fabs(x) ==
    IF x.kind = "num" THEN Num(Abs(x.v))
    ELSE IF x.kind = "nan" THEN NaN
    ELSE PosInf

\* a < b; every comparison with nan is False
flt(a, b) ==
    IF a.kind = "nan" \/ b.kind = "nan" THEN FALSE
    ELSE IF a.kind = "num" /\ b.kind = "num" THEN a.v < b.v
    ELSE IF a.kind = b.kind THEN FALSE
    ELSE a.kind = "-inf" \/ b.kind = "inf"

\* min(a, b) of Python: a unless b < a
fmin(a, b) == IF flt(b, a) THEN b ELSE a

\* "gain = min(diff, 6.0)  # Cap at 6dB to avoid clipping"
GainCap == 60

\* AudioSegment.apply_gain(gain)
apply_gain(seg, gain) ==
    [dBFS |-> IF seg.dBFS.kind = "num" /\ gain.kind = "num"
              THEN Num(seg.dBFS.v + gain.v) ELSE seg.dBFS,
     gains |-> Append(seg.gains, gain)]

\* match_volume with the gain given to the louder track
match_volume_boost_louder(a1, a2, maxdiff) ==
    LET diff == fabs(fsub(a1.dBFS, a2.dBFS))
    IN  IF flt(Num(maxdiff), diff)
        THEN IF flt(a1.dBFS, a2.dBFS)
             THEN <<a1, apply_gain(a2, fmin(diff, Num(GainCap)))>>
             ELSE <<apply_gain(a1, fmin(diff, Num(GainCap))), a2>>
        ELSE <<a1, a2>>

\* match_volume with the gain applied at every difference
match_volume_always(a1, a2, maxdiff) ==
    LET diff == fabs(fsub(a1.dBFS, a2.dBFS))
    IN  IF flt(a1.dBFS, a2.dBFS)
        THEN <<apply_gain(a1, fmin(diff, Num(GainCap))), a2>>
        ELSE <<a1, apply_gain(a2, fmin(diff, Num(GainCap)))>>

\* match_volume(audio1, audio2, max_diff_db)
match_volume(a1, a2, maxdiff) ==
    LET rms1 == a1.dBFS
        rms2 == a2.dBFS
        diff == fabs(fsub(rms1, rms2))
    IN  IF flt(Num(maxdiff), diff)
        THEN IF flt(rms1, rms2)
             THEN <<apply_gain(a1, fmin(diff, Num(GainCap))), a2>>
             ELSE <<a1, apply_gain(a2, fmin(diff, Num(GainCap)))>>
        ELSE <<a1, a2>>

(***************************************************************************)
(* tts_common.measure.  The audio is [len, dBFS, max_dBFS], len in ms and  *)
(* the levels in tenths of a dB; which of its slices are silent is left    *)
(* open.  duration_sec is in hundredths of a second and silence_ratio in   *)
(* hundredths of a percent, two decimals as round(x, 2) leaves them.       *)
(***************************************************************************)
\* detect_silence(audio, min_silence_len=100, silence_thresh=-40, seek_step=10)
MinSilenceLen == 100
SeekStep == 10

\* pydub.silence.detect_silence: the starts of the slices it looks at
slice_starts(seg_len) ==
    IF seg_len < MinSilenceLen THEN {}
    ELSE {i \in 0..(seg_len - MinSilenceLen) : i % SeekStep = 0}
         \cup {seg_len - MinSilenceLen}

RECURSIVE SortedSeq(_)
\* the elements of a set of numbers in increasing order
SortedSeq(S) ==
    IF S = {} THEN <<>> ELSE <<Min(S)>> \o SortedSeq(S \ {Min(S)})

RECURSIVE silent_ranges(_, _, _, _)
\* pydub.silence.detect_silence: the loop that joins the silent slices into
\* ranges; a range ends where the next silent slice starts after a gap
silent_ranges(starts, k, current_range_start, prev_i) ==
    IF k > Len(starts)
    THEN << <<current_range_start, prev_i + MinSilenceLen>> >>
    ELSE LET continuous == starts[k] = prev_i + SeekStep
             silence_has_gap == starts[k] > prev_i + MinSilenceLen
         IN  IF ~continuous /\ silence_has_gap
             THEN << <<current_range_start, prev_i + MinSilenceLen>> >>
                  \o silent_ranges(starts, k+1, starts[k], starts[k])
             ELSE silent_ranges(starts, k+1, current_range_start, starts[k])

\* detect_silence with one range for every silent slice
detect_silence_unmerged(seg_len, quiet) ==
    LET silence_starts == SortedSeq(quiet)
    IN  [k \in 1..Len(silence_starts) |->
            <<silence_starts[k], silence_starts[k] + MinSilenceLen>>]

\* pydub.silence.detect_silence for a segment of seg_len ms whose silent
\* slices start at the places in quiet
detect_silence(seg_len, quiet) ==
    LET silence_starts == SortedSeq(quiet)
    IN  IF seg_len < MinSilenceLen \/ silence_starts = <<>> THEN <<>>
        ELSE silent_ranges(Tail(silence_starts), 1,
                           Head(silence_starts), Head(silence_starts))

RECURSIVE sum_ranges(_)
\* sum(end - start for start, end in silence_ranges)
sum_ranges(ranges) ==
    IF ranges = <<>> THEN 0
    ELSE (Head(ranges)[2] - Head(ranges)[1]) + sum_ranges(Tail(ranges))

\* round(num / den * scale, 2) in hundredths, to the nearest
round2(num, den, scale) == (2 * num * scale * 100 + den) \div (2 * den)

\* measure(audio)
measure(a, quiet) ==
    LET silence_ranges == detect_silence(a.len, quiet)
        total_silence_ms == sum_ranges(silence_ranges)
    IN  [duration_sec |-> round2(a.len, 1000, 1),
         rms_dbfs |-> a.dBFS,
         peak_dbfs |-> a.max_dBFS,
         silence_ratio |-> IF a.len > 0
                           THEN round2(total_silence_ms, a.len, 100) ELSE 0]

(***************************************************************************)
(* prepare_tts_text.py.  A value of the YAML configuration is [type, v]:   *)
(* its Python type and, for a number, its value in tenths of a second      *)
(* (True is 1 and False is 0, "nan" is float('nan')).  pause_cfg is a      *)
(* function from the keys that are present to their values.                *)
(***************************************************************************)
required_keys == <<"short", "medium", "long">>

\* isinstance(val, (int, float)): bool is a subclass of int
isinstance_int_float(val) == val.type \in {"int", "float", "bool", "nan"}

\* 0.0 <= val <= 3.0
in_pause_range(val) == val.type # "nan" /\ 0 <= val.v /\ val.v <= 30

\* validate_pause_config(pause_cfg)
validate_pause_config(cfg) ==
    \A k \in 1..Len(required_keys) :
        /\ required_keys[k] \in DOMAIN cfg
        /\ LET val == cfg[required_keys[k]]
           IN  isinstance_int_float(val) /\ in_pause_range(val)

\* [(txt, pause) for txt, pause in segments if len(txt.strip()) >= args.min_chars]
filter_min_chars(segs, minc) ==
    SelectSeq(segs, LAMBDA c : py_len(strip(c[1])) >= minc)

\* the entries main writes for segments, "enumerate(segments, 1)"
manifest_entries(segs) ==
    [k \in 1..Len(segs) |->
        [idx |-> k, text |-> segs[k][1], pause_after |-> segs[k][2]]]

(***************************************************************************)
(* openai_tts.py: generate_tts and build_audio_with_pauses.  The track is  *)
(* the list of its pieces, [op, pi, si, ms]: the speech synthesized for    *)
(* sentence si of paragraph pi, the substitute returned when the synthesis *)
(* fails, or a silence; ms is the length of the silence in the piece.      *)
(***************************************************************************)
\* one element of a text that stands for a run of 11 letters w
WordRun == "w{11}"
\* should_add_clause_pause: min_length
MinClauseLen == 12
\* synthesize_segment: AudioSegment.silent(duration=100) on an error
SubstituteMs == 100

RECURSIVE oa_len(_)
\* len(text): the number of characters
oa_len(s) ==
    IF s = <<>> THEN 0
    ELSE (IF Head(s) = WordRun THEN MinClauseLen - 1 ELSE 1) + oa_len(Tail(s))

\* str.rstrip()
rstrip(s) ==
    LET keep == {i \in 1..Len(s) : ~IsSpace(s[i])}
    IN  IF keep = {} THEN <<>> ELSE SubSeq(s, 1, Max(keep))

\* openai_tts.split_paragraphs, the same expression as in tts_common
oa_split_paragraphs(t) == tts_paragraphs(t)

\* openai_tts.split_sentences, the same code as tts_common._split_sentences
oa_split_sentences(paragraph) == _split_sentences(paragraph)

should_add_clause_pause(t) == oa_len(t) >= MinClauseLen

\* sent.rstrip().endswith(('.', '!', '?', '。', '．'))
ends_with_strong(sent) ==
    LET r == rstrip(sent)
    IN  r # <<>> /\ r[Len(r)] \in {".", "!", "?", "U+3002", "U+FF0E"}

\* CLAUSE_SPLIT.search(sent)
clause_search(sent) == \E j \in 1..Len(sent) : IsClauseMarker(sent[j])

speech_piece(pi, si) == [op |-> "speech", pi |-> pi, si |-> si, ms |-> 0]
substitute_piece(pi, si) ==
    [op |-> "substitute", pi |-> pi, si |-> si, ms |-> SubstituteMs]
silence_piece(pi, si, ms) == [op |-> "silence", pi |-> pi, si |-> si, ms |-> ms]

\* synthesize_segment: the audio of the response, or 100 ms of silence when
\* the call raises
synthesize_segment(pi, si, ok) ==
    IF ok THEN speech_piece(pi, si) ELSE substitute_piece(pi, si)

\* "Add pause after sentence" for a sentence that is not the last of its
\* paragraph: what is added to the track
pause_after_sentence(sent, pi, si, o) ==
    IF ends_with_strong(sent)
    THEN <<silence_piece(pi, si, int_ms(o.pause_medium))>>
    ELSE IF clause_search(sent) /\ should_add_clause_pause(sent)
    THEN <<silence_piece(pi, si, int_ms(o.pause_short))>>
    ELSE <<>>

\* apply_warmth_boost: the boost is applied when 0 < boost_db <= 4 and
\* ffmpeg succeeds, otherwise the audio comes back as it is
apply_warmth_boost(boost_db, ffmpeg_ok) ==
    IF boost_db <= 0 \/ boost_db > 4 THEN <<>>
    ELSE IF ffmpeg_ok THEN <<"warmth">> ELSE <<>>

(***************************************************************************)
(* The calls.                                                              *)
(***************************************************************************)
TtsAlphabet == {"a", "1", ",", ".", " ", NL}
SegAlphabet == {"a", "p", "A", "1", ",", ".", "!", " ", NL}
\* spaces, tabs and newlines: the inputs without content
BlankAlphabet == {" ", "\t", NL}
\* texts with sentences of more than 600 characters
LongAlphabet == {LongRun, "1", ",", ".", " "}

ChunkLens == {40, 100, 500}
PauseTags == {"none", "short", "medium", "long"}
PauseProfiles ==
    { [short |-> 2500, medium |-> 5000, long |-> 8000],
      [short |-> 2505, medium |-> 5005, long |-> 8005],
      [short |-> 0, medium |-> 0, long |-> 0] }
FadeChoices == {0, 20}
CrossfadeChoices == {0, 50, 100}
SpeedChoices == {950, 1000, 1050}
\* dBFS of the tracks given to match_volume, and the values of max_diff_db
Levels == {NegInf} \cup {Num(v) : v \in {-300, -215, -200, -140, -126, -125, -120, -110, 0}}
MaxDiffChoices == {0, 15, 60, 70}
\* what the configuration file can hold under tts.pause
PauseValues ==
    { [type |-> "float", v |-> -1], [type |-> "float", v |-> 30],
      [type |-> "float", v |-> 31], [type |-> "nan", v |-> 0],
      [type |-> "bool", v |-> 1], [type |-> "str", v |-> 5],
      [type |-> "int", v |-> 40] }
PauseConfigs == UNION {[D -> PauseValues] : D \in SUBSET {"short", "medium", "long"}}
\* the input file's text and --min-chars (10 by default)
\* len(audio) of the tracks given to measure
MeasureLens == {0, 50, 100, 105, 130, 220}
PpAlphabet == {"a", "b", ".", ",", " ", NL}
MinCharsChoices == {0, 2, 10}

\* the texts given to generate_tts and its keyword arguments: the pauses of
\* the profiles natural and broadcast
OaAlphabet == {".", "\"", ",", " ", NL}
OaTailAlphabet == {".", "\"", ",", " "}
OaOptions ==
    { [pause_short |-> 2500, pause_medium |-> 5000, pause_long |-> 8000,
       speed |-> 1000, normalize |-> FALSE, warmth_db |-> 0],
      [pause_short |-> 3000, pause_medium |-> 6000, pause_long |-> 10000,
       speed |-> 980, normalize |-> TRUE, warmth_db |-> 2] }

IdleTts ==
    /\ full_text = <<>> /\ max_chars = 1 /\ mode = "sentence" /\ segments = <<>>
IdleSeg ==
    /\ text = <<>> /\ all_chunks = <<>> /\ valid_splits = <<>>
    /\ sentence_chunks = <<>>
IdleMv ==
    /\ audio1 = [dBFS |-> NegInf, gains |-> <<>>]
    /\ audio2 = [dBFS |-> NegInf, gains |-> <<>>]
    /\ max_diff_db = 0 /\ matched = <<>>
IdlePp ==
    /\ min_chars = 0 /\ pause_cfg = <<>> /\ pp_text = <<>> /\ pp_segments = <<>>
    /\ manifest = <<>> /\ effects = {} /\ status = -1
IdleMs ==
    /\ audio = [len |-> 0, dBFS |-> NegInf, max_dBFS |-> NegInf]
    /\ silent_slices = {} /\ metrics = <<>>
(***************************************************************************)
(* compare_tts.main and the two scripts it runs                            *)
(***************************************************************************)
\* the options of openai_cmd and of piper_cmd
OpenaiCmdOptions ==
    {"--output", "--json-out", "--voice", "--model", "--format",
     "--pause-profile", "--fade-ms", "--crossfade-ms", "--max-chars"}
PiperCmdOptions ==
    {"--output", "--json-out", "--voice", "--pause-profile", "--fade-ms",
     "--crossfade-ms", "--max-chars"}

\* the options the parser of openai_tts.main declares
OpenaiTtsOptions ==
    {"--output", "--voice", "--preset", "--model", "--format",
     "--pause-profile", "--pause-short", "--pause-medium", "--pause-long",
     "--speed", "--normalize", "--warmth-db", "--male-voices"}

\* the options the parser of piper_tts.main declares
PiperTtsOptions ==
    {"--output", "--voice", "--pause-profile", "--pause-short",
     "--pause-medium", "--pause-long", "--fade-ms", "--crossfade-ms",
     "--max-chars", "--style-prefix", "--speed", "--normalize", "--json-out"}

\* choices of --pause-profile in both scripts
PauseProfileChoices == {"broadcast", "natural", "tight"}

\* parser.parse_args() of a script: argparse ends the process with status 2
\* on an option the parser does not declare (none of the options passed is a
\* proper prefix of a declared one) and on a value outside the choices
parse_args(passed, declared, pause_profile) ==
    IF passed \subseteq declared /\ pause_profile \in PauseProfileChoices
    THEN 0 ELSE 2

\* what is in a file of outdir: nothing ("absent"), what a run before this one
\* left ("earlier", "earlier_empty" when it has no bytes), or what a process
\* of this invocation wrote ("this")
exists(file) == file # "absent"
st_size(file) == IF file \in {"earlier", "this"} THEN 1 ELSE 0

\* the process "python scripts/openai_tts.py <input> <openai_cmd options>":
\* its exit status and whether it wrote --output.  The path is relative to
\* the working directory: e.openai_script tells whether the script found
\* there is openai_tts.py of this repository or a stand-in that takes the
\* options, writes the output and the metrics and exits 0
openai_tts_main(e) ==
    IF e.openai_script = "stand_in"
    THEN [returncode |-> 0, wrote |-> TRUE, json_out |-> TRUE]
    ELSE IF parse_args(OpenaiCmdOptions, OpenaiTtsOptions, e.pause_profile) # 0
    THEN [returncode |-> 2, wrote |-> FALSE, json_out |-> FALSE]
    ELSE IF e.text_blank \/ ~e.api_key
    THEN [returncode |-> 1, wrote |-> FALSE, json_out |-> FALSE]
    ELSE [returncode |-> 0, wrote |-> TRUE, json_out |-> FALSE]

\* the process "python scripts/piper_tts.py <input> <piper_cmd options>":
\* its exit status and whether it wrote --output and --json-out
piper_tts_main(e) ==
    IF parse_args(PiperCmdOptions, PiperTtsOptions, e.pause_profile) # 0
    THEN [returncode |-> 2, wrote |-> FALSE]
    ELSE IF ~e.have_piper
    THEN [returncode |-> 0, wrote |-> FALSE]
    ELSE IF ~e.voice_exists \/ e.text_blank \/ ~e.piper_synth_ok
    THEN [returncode |-> 1, wrote |-> FALSE]
    ELSE [returncode |-> 0, wrote |-> TRUE]

\* what compare_tts.main can be started with
CmpEnvs ==
    [input_exists : BOOLEAN, text_blank : BOOLEAN,
     openai_script : {"repository", "stand_in"}, api_key : BOOLEAN,
     have_piper : BOOLEAN, voice_exists : BOOLEAN, piper_synth_ok : BOOLEAN,
     pause_profile : {"natural", "studio"}, ab_swap_sec : {0, 1}]

IdleCmp ==
    /\ cmp_env = [input_exists |-> FALSE, text_blank |-> FALSE,
                  openai_script |-> "repository", api_key |-> FALSE,
                  have_piper |-> FALSE, voice_exists |-> FALSE,
                  piper_synth_ok |-> FALSE, pause_profile |-> "natural",
                  ab_swap_sec |-> 0]
    /\ cmp_outdir = [openai_wav |-> "absent", piper_wav |-> "absent",
                     openai_match |-> "absent", piper_match |-> "absent",
                     ab_mix |-> "absent"]
    /\ cmp_workdir = {}
    /\ cmp_piper_result = -1 /\ cmp_piper_ok = FALSE
    /\ cmp_report = <<>> /\ cmp_status = -1
IdleOa ==
    /\ oa_text = <<>> /\ oa_pi = 0 /\ oa_si = 0 /\ oa_track = <<>>
    /\ oa_applied = <<>> /\ oa_output = <<>>
    /\ oa_opts = [pause_short |-> 0, pause_medium |-> 0, pause_long |-> 0,
                  speed |-> 1000, normalize |-> FALSE, warmth_db |-> 0]
IdleBt ==
    /\ chunks = <<>> /\ pause_plan = <<>> /\ chunk_i = 0
    /\ opts = [pause_short |-> 0, pause_medium |-> 0, pause_long |-> 0,
               fade_ms |-> 0, crossfade_ms |-> 0, normalize |-> FALSE,
               speed |-> 1000]
    /\ track = silent(0) /\ applied = <<>>

\* a call of tts_common.segment_text is about to be made
InitTts ==
    /\ pc = "tts_ready"
    /\ full_text \in Strings(TtsAlphabet, MaxLen) \cup Strings(BlankAlphabet, MaxBlankLen)
    /\ max_chars \in 1..MaxChars
    /\ mode \in {"sentence", "paragraph"}
    /\ segments = <<>>
    /\ IdleSeg /\ IdleBt /\ IdleMv /\ IdlePp /\ IdleMs /\ IdleOa /\ IdleCmp

\* a call of textseg.segment_text is about to be made
InitSeg ==
    /\ pc = "seg_ready"
    /\ text \in Strings(SegAlphabet, MaxSegLen)
                 \cup Strings(BlankAlphabet, MaxBlankLen)
                 \cup Strings(LongAlphabet, MaxLongLen)
    /\ all_chunks = <<>>
    /\ valid_splits = <<>>
    /\ sentence_chunks = <<>>
    /\ IdleTts /\ IdleBt /\ IdleMv /\ IdlePp /\ IdleMs /\ IdleOa /\ IdleCmp

\* a call of tts_common.build_track is about to be made
InitBt ==
    /\ pc = "bt_ready"
    /\ \E n \in 0..MaxChunks :
        /\ chunks \in [1..n -> [len : ChunkLens, frame_rate : {ChunkFrameRate}]]
        /\ pause_plan \in [1..(IF n = 0 THEN 0 ELSE n-1) -> PauseTags]
    /\ \E p \in PauseProfiles :
        opts \in [pause_short : {p.short}, pause_medium : {p.medium},
                  pause_long : {p.long}, fade_ms : FadeChoices,
                  crossfade_ms : CrossfadeChoices, normalize : BOOLEAN,
                  speed : SpeedChoices]
    /\ chunk_i = 0
    /\ track = silent(0)
    /\ applied = <<>>
    /\ IdleTts /\ IdleSeg /\ IdleMv /\ IdlePp /\ IdleMs /\ IdleOa /\ IdleCmp

\* a call of tts_common.match_volume is about to be made
InitMv ==
    /\ pc = "mv_ready"
    /\ audio1 \in [dBFS : Levels, gains : {<<>>}]
    /\ audio2 \in [dBFS : Levels, gains : {<<>>}]
    /\ max_diff_db \in MaxDiffChoices
    /\ matched = <<>>
    /\ IdleTts /\ IdleSeg /\ IdleBt /\ IdlePp /\ IdleMs /\ IdleOa /\ IdleCmp

\* prepare_tts_text.main is about to run with the parsed arguments
InitPp ==
    /\ pc = "pp_ready"
    /\ min_chars \in MinCharsChoices
    /\ pause_cfg = <<>> /\ pp_text = <<>> /\ pp_segments = <<>>
    /\ manifest = <<>> /\ effects = {} /\ status = -1
    /\ IdleTts /\ IdleSeg /\ IdleBt /\ IdleMv /\ IdleMs /\ IdleOa /\ IdleCmp

\* a call of tts_common.measure is about to be made
InitMs ==
    /\ pc = "ms_ready"
    /\ \E n \in MeasureLens :
         audio \in IF n = 0
                   THEN {[len |-> 0, dBFS |-> NegInf, max_dBFS |-> NegInf]}
                   ELSE {[len |-> n, dBFS |-> NegInf, max_dBFS |-> NegInf],
                         [len |-> n, dBFS |-> Num(-200), max_dBFS |-> Num(-30)]}
    /\ silent_slices = {} /\ metrics = <<>>
    /\ IdleTts /\ IdleSeg /\ IdleBt /\ IdleMv /\ IdlePp /\ IdleOa /\ IdleCmp

\* a call of openai_tts.generate_tts is about to be made
InitOa ==
    /\ pc = "oa_ready"
    /\ oa_text \in Strings(OaAlphabet, MaxOaLen)
                    \cup {<<WordRun>> \o s : s \in Strings(OaTailAlphabet, MaxOaLen)}
    /\ oa_opts \in OaOptions
    /\ oa_pi = 0 /\ oa_si = 0 /\ oa_track = <<>>
    /\ oa_applied = <<>> /\ oa_output = <<>>
    /\ IdleTts /\ IdleSeg /\ IdleBt /\ IdleMv /\ IdlePp /\ IdleMs /\ IdleCmp

\* compare_tts.main is about to be called; outdir may hold the files of an
\* earlier comparison
InitCmp ==
    /\ pc = "cmp_ready"
    /\ cmp_env \in CmpEnvs
    /\ \E o \in {"absent", "earlier"}, p \in {"absent", "earlier", "earlier_empty"} :
         cmp_outdir = [openai_wav |-> o, piper_wav |-> p,
                       openai_match |-> "absent", piper_match |-> "absent",
                       ab_mix |-> "absent"]
    /\ cmp_workdir = {}
    /\ cmp_piper_result = -1 /\ cmp_piper_ok = FALSE
    /\ cmp_report = <<>> /\ cmp_status = -1
    /\ IdleTts /\ IdleSeg /\ IdleBt /\ IdleMv /\ IdlePp /\ IdleMs /\ IdleOa

Init ==
    InitTts \/ InitSeg \/ InitBt \/ InitMv \/ InitPp \/ InitMs \/ InitOa
    \/ InitCmp

\* segments = tts_common.segment_text(full_text, max_chars, mode)
SegmentText ==
    /\ pc = "tts_ready"
    /\ segments' = segment_text(full_text, max_chars, mode)
    /\ pc' = "tts_done"
    /\ UNCHANGED <<full_text, max_chars, mode, segVars, btVars, mvVars, ppVars, msVars, oaVars, cmpVars>>

\* all_chunks = textseg.segment_text(text)
TextsegSegmentText ==
    /\ pc = "seg_ready"
    /\ all_chunks' = textseg_segment_text(text)
    /\ valid_splits' =
         LET paragraphs == split_paragraphs(text)
         IN  [k \in 1..Len(paragraphs) |->
                 LET v == valid_splits_of(normalize_whitespace(strip(paragraphs[k])))
                 IN  [j \in 1..Len(v) |-> v[j][1]]]
    /\ sentence_chunks' =
         LET paragraphs == split_paragraphs(text)
         IN  [k \in 1..Len(paragraphs) |->
                 sentence_log(normalize_whitespace(strip(paragraphs[k])))]
    /\ pc' = "seg_done"
    /\ UNCHANGED <<text, ttsVars, btVars, mvVars, ppVars, msVars, oaVars, cmpVars>>

\* build_track without "if not chunks: return ...", indexing the first chunk
\* before the loop: an empty list raises
BuildTrackStartUnchecked ==
    /\ pc = "bt_ready"
    /\ track' = silent(0)
    /\ IF chunks = <<>>
       THEN pc' = "bt_raised" /\ chunk_i' = chunk_i
       ELSE pc' = "bt_loop" /\ chunk_i' = 1
    /\ UNCHANGED <<chunks, pause_plan, opts, applied, ttsVars, segVars, mvVars, ppVars, msVars, oaVars, cmpVars>>

\* build_track: "if not chunks: return AudioSegment.silent(duration=0)",
\* else "track = AudioSegment.silent(duration=0)" and the loop starts
BuildTrackStart ==
    /\ pc = "bt_ready"
    /\ track' = silent(0)
    /\ IF chunks = <<>>
       THEN pc' = "bt_done" /\ chunk_i' = chunk_i
       ELSE pc' = "bt_loop" /\ chunk_i' = 1
    /\ UNCHANGED <<chunks, pause_plan, opts, applied, ttsVars, segVars, mvVars, ppVars, msVars, oaVars, cmpVars>>

\* build_track: one pass of the loop over chunks; an exception of append
\* leaves build_track
BuildTrackChunk ==
    /\ pc = "bt_loop"
    /\ LET r == append_chunk(track, chunks[chunk_i], chunk_i, opts)
       IN  /\ track' = r.track
           /\ applied' = applied \o r.applied
           /\ pc' = IF r.raised THEN "bt_raised"
                    ELSE IF chunk_i = Len(chunks) THEN "bt_speed" ELSE "bt_loop"
           /\ chunk_i' = IF r.raised THEN chunk_i ELSE chunk_i + 1
    /\ UNCHANGED <<chunks, pause_plan, opts, ttsVars, segVars, mvVars, ppVars, msVars, oaVars, cmpVars>>

\* build_track: "if abs(speed - 1.0) > 0.001: ..."
BuildTrackSpeed ==
    /\ pc = "bt_speed"
    /\ IF speed_differs(opts.speed)
       THEN /\ track' = adjust_speed(track, opts.speed)
            /\ applied' = applied \o
                 (IF Abs(opts.speed - 1000) > 50
                  THEN << [op |-> "warn", i |-> 0, ms |-> 0] >> ELSE <<>>)
                 \o << [op |-> "speed", i |-> 0, ms |-> track.len] >>
       ELSE UNCHANGED <<track, applied, cmpVars>>
    /\ pc' = "bt_normalize"
    /\ UNCHANGED <<chunks, pause_plan, opts, chunk_i, ttsVars, segVars, mvVars, ppVars, msVars, oaVars, cmpVars>>

\* build_track: "if normalize: track = track.normalize(headroom=0.1)" and
\* "return track"
BuildTrackNormalize ==
    /\ pc = "bt_normalize"
    /\ applied' = IF opts.normalize
                  THEN Append(applied, [op |-> "normalize", i |-> 0, ms |-> 0])
                  ELSE applied
    /\ pc' = "bt_done"
    /\ UNCHANGED <<chunks, pause_plan, opts, chunk_i, track, ttsVars, segVars, mvVars, ppVars, msVars, oaVars, cmpVars>>

\* matched = match_volume(audio1, audio2, max_diff_db)
MatchVolume ==
    /\ pc = "mv_ready"
    /\ matched' = match_volume(audio1, audio2, max_diff_db)
    /\ pc' = "mv_done"
    /\ UNCHANGED <<audio1, audio2, max_diff_db, ttsVars, segVars, btVars, ppVars, msVars, oaVars, cmpVars>>

\* main: the configuration file is missing ("return 1") or is loaded
PrepareLoadConfig ==
    /\ pc = "pp_ready"
    /\ \/ /\ status' = 1 /\ pc' = "pp_done"
          /\ UNCHANGED <<pause_cfg, effects, cmpVars>>
       \/ /\ pause_cfg' \in PauseConfigs
          /\ effects' = effects \cup {"config_loaded"}
          /\ pc' = "pp_validate"
          /\ status' = status
    /\ UNCHANGED <<min_chars, pp_text, pp_segments, manifest,
                   ttsVars, segVars, btVars, mvVars, msVars, oaVars, cmpVars>>

\* main: "if not validate_pause_config(pause_cfg): ... return 1"
PrepareValidate ==
    /\ pc = "pp_validate"
    /\ IF validate_pause_config(pause_cfg)
       THEN /\ pc' = "pp_read"
            /\ effects' = effects \cup {"validated"}
            /\ status' = status
       ELSE /\ pc' = "pp_done" /\ status' = 1
            /\ effects' = effects
    /\ UNCHANGED <<min_chars, pause_cfg, pp_text, pp_segments, manifest,
                   ttsVars, segVars, btVars, mvVars, msVars, oaVars, cmpVars>>

\* main: the input file is missing or cannot be read ("return 1"), or its
\* text is read and "text = text.replace('\r\n', '\n')"
PrepareReadInput ==
    /\ pc = "pp_read"
    /\ \/ /\ status' = 1 /\ pc' = "pp_done"
          /\ UNCHANGED <<pp_text, effects, cmpVars>>
       \/ /\ \E t \in Strings(PpAlphabet, MaxPpLen) : pp_text' = replace_crlf(t)
          /\ effects' = effects \cup {"input_read"}
          /\ pc' = "pp_segment"
          /\ status' = status
    /\ UNCHANGED <<min_chars, pause_cfg, pp_segments, manifest,
                   ttsVars, segVars, btVars, mvVars, msVars, oaVars, cmpVars>>

\* main: "segments = segment_text(text)", "return 0" when there are none,
\* else the filter by minimum characters
PrepareSegment ==
    /\ pc = "pp_segment"
    /\ LET segs == textseg_segment_text(pp_text)
       IN  IF segs = <<>>
           THEN /\ pp_segments' = <<>>
                /\ pc' = "pp_done" /\ status' = 0
           ELSE /\ pp_segments' = filter_min_chars(segs, min_chars)
                /\ pc' = "pp_write" /\ status' = status
    /\ effects' = effects \cup {"segmented"}
    /\ UNCHANGED <<min_chars, pause_cfg, pp_text, manifest,
                   ttsVars, segVars, btVars, mvVars, msVars, oaVars, cmpVars>>

\* main: the manifest is opened for writing and one line per segment is
\* written ("return 0"); an exception on the way leaves the lines written
\* so far ("return 1")
PrepareWriteManifest ==
    /\ pc = "pp_write"
    /\ \/ /\ manifest' = manifest_entries(pp_segments)
          /\ effects' = effects \cup {"manifest_created"}
          /\ status' = 0
       \/ /\ UNCHANGED <<manifest, effects, cmpVars>>
          /\ status' = 1
       \/ /\ \E n \in 0..Len(pp_segments) :
                manifest' = SubSeq(manifest_entries(pp_segments), 1, n)
          /\ effects' = effects \cup {"manifest_created"}
          /\ status' = 1
    /\ pc' = "pp_done"
    /\ UNCHANGED <<min_chars, pause_cfg, pp_text, pp_segments,
                   ttsVars, segVars, btVars, mvVars, msVars, oaVars, cmpVars>>

\* metrics = measure(audio); a track that is digital silence is silent in
\* every slice
Measure ==
    /\ pc = "ms_ready"
    /\ \E quiet \in SUBSET slice_starts(audio.len) :
         /\ audio.dBFS = NegInf => quiet = slice_starts(audio.len)
         /\ silent_slices' = quiet
         /\ metrics' = measure(audio, quiet)
    /\ pc' = "ms_done"
    /\ UNCHANGED <<audio, ttsVars, segVars, btVars, mvVars, ppVars, oaVars, cmpVars>>

\* generate_tts calls build_audio_with_pauses: without OPENAI_API_KEY it
\* raises, else the track is empty and the loop over the paragraphs starts
OaStart ==
    /\ pc = "oa_ready"
    /\ \E api_key \in BOOLEAN :
         IF ~api_key
         THEN pc' = "oa_raised" /\ UNCHANGED <<oa_pi, oa_si>>
         ELSE /\ pc' = IF oa_split_paragraphs(oa_text) = <<>>
                       THEN "oa_post" ELSE "oa_loop"
              /\ oa_pi' = 1 /\ oa_si' = 1
    /\ UNCHANGED <<oa_text, oa_opts, oa_track, oa_applied, oa_output,
                   ttsVars, segVars, btVars, mvVars, ppVars, msVars, cmpVars>>

\* build_audio_with_pauses: one pass of "for si, sent in enumerate(sentences)":
\* the sentence is synthesized and added, then the pause after it
OaSentence ==
    /\ pc = "oa_loop"
    /\ LET para == oa_split_paragraphs(oa_text)[oa_pi]
           sentences == oa_split_sentences(para)
       IN  /\ strip(para) # <<>>
           /\ oa_si <= Len(sentences)
           /\ \E ok \in BOOLEAN :
                oa_track' = oa_track
                    \o <<synthesize_segment(oa_pi, oa_si, ok)>>
                    \o (IF oa_si < Len(sentences)
                        THEN pause_after_sentence(sentences[oa_si],
                                                  oa_pi, oa_si, oa_opts)
                        ELSE <<>>)
    /\ oa_si' = oa_si + 1
    /\ pc' = pc
    /\ UNCHANGED <<oa_text, oa_opts, oa_pi, oa_applied, oa_output,
                   ttsVars, segVars, btVars, mvVars, ppVars, msVars, cmpVars>>

\* build_audio_with_pauses: the end of a pass of "for pi, para in
\* enumerate(paragraphs)": the long pause unless the paragraph is the last
\* ("continue" for a blank paragraph skips it)
OaParagraphEnd ==
    /\ pc = "oa_loop"
    /\ LET paragraphs == oa_split_paragraphs(oa_text)
           para == paragraphs[oa_pi]
       IN  /\ strip(para) = <<>> \/ oa_si > Len(oa_split_sentences(para))
           /\ oa_track' =
                IF strip(para) # <<>> /\ oa_pi < Len(paragraphs)
                THEN Append(oa_track,
                            silence_piece(oa_pi, 0, int_ms(oa_opts.pause_long)))
                ELSE oa_track
           /\ pc' = IF oa_pi = Len(paragraphs) THEN "oa_post" ELSE "oa_loop"
    /\ oa_pi' = oa_pi + 1
    /\ oa_si' = 1
    /\ UNCHANGED <<oa_text, oa_opts, oa_applied, oa_output,
                   ttsVars, segVars, btVars, mvVars, ppVars, msVars, cmpVars>>

\* build_audio_with_pauses: speed adjustment, normalization and warmth boost
\* of the whole track, then "return track"
OaPostProcess ==
    /\ pc = "oa_post"
    /\ \E ffmpeg_ok \in BOOLEAN :
         oa_applied' =
             (IF speed_differs(oa_opts.speed) THEN <<"speed">> ELSE <<>>)
             \o (IF oa_opts.normalize THEN <<"normalize">> ELSE <<>>)
             \o (IF oa_opts.warmth_db > 0
                 THEN apply_warmth_boost(oa_opts.warmth_db, ffmpeg_ok)
                 ELSE <<>>)
    /\ pc' = "oa_export"
    /\ UNCHANGED <<oa_text, oa_opts, oa_pi, oa_si, oa_track, oa_output,
                   ttsVars, segVars, btVars, mvVars, ppVars, msVars, cmpVars>>

\* generate_tts: audio.export(output_path, format=response_format), which
\* writes the file or raises
OaExport ==
    /\ pc = "oa_export"
    /\ \E ok \in BOOLEAN :
         IF ok
         THEN /\ oa_output' = <<[track |-> oa_track, applied |-> oa_applied]>>
              /\ pc' = "oa_done"
         ELSE /\ oa_output' = oa_output
              /\ pc' = "oa_raised"
    /\ UNCHANGED <<oa_text, oa_opts, oa_pi, oa_si, oa_track, oa_applied,
                   ttsVars, segVars, btVars, mvVars, ppVars, msVars, cmpVars>>

\* compare_tts.main up to the OpenAI command: "return 1" without the input
\* file, else work/<slug>/input.txt is written
CmpStart ==
    /\ pc = "cmp_ready"
    /\ IF ~cmp_env.input_exists
       THEN /\ cmp_status' = 1 /\ pc' = "cmp_returned"
            /\ cmp_workdir' = cmp_workdir
       ELSE /\ cmp_status' = cmp_status /\ pc' = "cmp_openai"
            /\ cmp_workdir' = cmp_workdir \cup {"input.txt"}
    /\ UNCHANGED <<cmp_env, cmp_outdir, cmp_piper_result, cmp_piper_ok, cmp_report,
                   ttsVars, segVars, btVars, mvVars, ppVars, msVars, oaVars>>

\* run_command(openai_cmd): CalledProcessError on a non-zero exit status
CmpOpenai ==
    /\ pc = "cmp_openai"
    /\ IF openai_tts_main(cmp_env).returncode # 0
       THEN /\ pc' = "cmp_raised"
            /\ UNCHANGED <<cmp_outdir, cmp_workdir>>
       ELSE /\ pc' = "cmp_piper"
            /\ cmp_outdir' =
                 IF openai_tts_main(cmp_env).wrote
                 THEN [cmp_outdir EXCEPT !.openai_wav = "this"]
                 ELSE cmp_outdir
            /\ cmp_workdir' =
                 IF openai_tts_main(cmp_env).json_out
                 THEN cmp_workdir \cup {"metrics_openai.json"}
                 ELSE cmp_workdir
    /\ UNCHANGED <<cmp_env, cmp_piper_result, cmp_piper_ok, cmp_report, cmp_status,
                   ttsVars, segVars, btVars, mvVars, ppVars, msVars, oaVars>>

\* piper_result = run_command(piper_cmd, allow_fail=True), then piper_ok
CmpPiper ==
    /\ pc = "cmp_piper"
    /\ cmp_piper_result' = piper_tts_main(cmp_env).returncode
    /\ cmp_outdir' =
         IF piper_tts_main(cmp_env).wrote
         THEN [cmp_outdir EXCEPT !.piper_wav = "this"]
         ELSE cmp_outdir
    /\ cmp_workdir' =
         IF piper_tts_main(cmp_env).wrote
         THEN cmp_workdir \cup {"metrics_piper.json"}
         ELSE cmp_workdir
    /\ cmp_piper_ok' = (/\ cmp_piper_result' = 0
                        /\ exists(cmp_outdir'.piper_wav)
                        /\ st_size(cmp_outdir'.piper_wav) > 0)
    /\ pc' = "cmp_match"
    /\ UNCHANGED <<cmp_env, cmp_report, cmp_status,
                   ttsVars, segVars, btVars, mvVars, ppVars, msVars, oaVars>>

\* the volume matching: openai_match.wav, and piper_match.wav from piper.wav
\* when piper_ok; AudioSegment.from_file raises on a missing file
CmpMatch ==
    /\ pc = "cmp_match"
    /\ IF ~exists(cmp_outdir.openai_wav)
       THEN pc' = "cmp_raised" /\ cmp_outdir' = cmp_outdir
       ELSE /\ pc' = "cmp_report"
            /\ cmp_outdir' =
                 IF cmp_piper_ok
                 THEN [cmp_outdir EXCEPT !.openai_match = cmp_outdir.openai_wav,
                                         !.piper_match = cmp_outdir.piper_wav]
                 ELSE [cmp_outdir EXCEPT !.openai_match = cmp_outdir.openai_wav]
    /\ UNCHANGED <<cmp_env, cmp_workdir, cmp_piper_result, cmp_piper_ok, cmp_report,
                   cmp_status,
                   ttsVars, segVars, btVars, mvVars, ppVars, msVars, oaVars>>

\* the comparison report, written to work/<slug>/compare_report.json
CmpReport ==
    /\ pc = "cmp_report"
    /\ cmp_report' =
         [openai |-> IF "metrics_openai.json" \in cmp_workdir
                     THEN "metrics" ELSE "empty",
          piper |-> IF cmp_piper_ok /\ "metrics_piper.json" \in cmp_workdir
                    THEN "metrics" ELSE "skipped",
          comparison |-> cmp_piper_ok]
    /\ cmp_workdir' = cmp_workdir \cup {"compare_report.json"}
    /\ pc' = "cmp_ab"
    /\ UNCHANGED <<cmp_env, cmp_outdir, cmp_piper_result, cmp_piper_ok, cmp_status,
                   ttsVars, segVars, btVars, mvVars, ppVars, msVars, oaVars>>

\* the AB swap mix of the two matched files when asked for and piper_ok, the
\* summary and "return 0"
CmpAbMix ==
    /\ pc = "cmp_ab"
    /\ cmp_outdir' =
         IF cmp_env.ab_swap_sec > 0 /\ cmp_piper_ok
         THEN [cmp_outdir EXCEPT !.ab_mix = cmp_outdir.piper_match]
         ELSE cmp_outdir
    /\ cmp_status' = 0
    /\ pc' = "cmp_done"
    /\ UNCHANGED <<cmp_env, cmp_workdir, cmp_piper_result, cmp_piper_ok, cmp_report,
                   ttsVars, segVars, btVars, mvVars, ppVars, msVars, oaVars>>

Next ==
    \/ CmpStart
    \/ CmpOpenai
    \/ CmpPiper
    \/ CmpMatch
    \/ CmpReport
    \/ CmpAbMix
    \/ OaStart
    \/ OaSentence
    \/ OaParagraphEnd
    \/ OaPostProcess
    \/ OaExport
    \/ Measure
    \/ MatchVolume
    \/ PrepareLoadConfig
    \/ PrepareValidate
    \/ PrepareReadInput
    \/ PrepareSegment
    \/ PrepareWriteManifest
    \/ SegmentText
    \/ TextsegSegmentText
    \/ BuildTrackStart
    \/ BuildTrackChunk
    \/ BuildTrackSpeed
    \/ BuildTrackNormalize

Spec == Init /\ [][Next]_vars

(***************************************************************************)
(* Properties of tts_common.segment_text                                   *)
(***************************************************************************)
HasClauseMarker(s) == \E j \in 1..Len(s) : IsClauseMarker(s[j])

\* the characters of s that are not whitespace, in order
NonWs(s) == SelectSeq(s, LAMBDA c : ~IsSpace(c))

\* C1: in mode "sentence" every chunk is at most max_chars long, unless it is
\* a single clause without any clause marker (comma, semicolon, colon, dash).
C1_ChunkLengthBound ==
    (pc = "tts_done" /\ mode = "sentence") =>
        \A k \in 1..Len(segments) :
            Len(segments[k]) <= max_chars \/ ~HasClauseMarker(segments[k])

\* a sentence longer than max_chars was split at its clause markers and one
\* clause, which cannot be split further, is still longer than max_chars
C1_Witness ==
    /\ pc = "tts_done" /\ mode = "sentence"
    /\ Len(segments) >= 2
    /\ \E k \in 1..Len(segments) :
           Len(segments[k]) > max_chars /\ segments[k][1] = "a"
    /\ \E k \in 1..Len(segments) : HasClauseMarker(segments[k])

\* C2: the chunks, concatenated in output order, hold exactly the
\* non-whitespace characters of the input, in the input's order.
C2_ContentPreserved ==
    pc = "tts_done" => NonWs(Concat(segments)) = NonWs(full_text)

\* several chunks came out and whitespace of the input was dropped
C2_Witness ==
    /\ pc = "tts_done"
    /\ Len(segments) >= 3
    /\ Len(Concat(segments)) < Len(full_text)
    /\ \E j \in 1..Len(full_text) : IsSentEnd(full_text[j])
    /\ \E j \in 1..Len(full_text) : full_text[j] = "a"

IsBlankText(s) == \A i \in 1..Len(s) : s[i] \in BlankAlphabet

\* C11: tts_common.segment_text and textseg.segment_text return the empty
\* list for the empty string and for every input made only of spaces, tabs
\* and newlines (neither function has a raise on its path).
C11_BlankInputNoChunks ==
    /\ (pc = "tts_done" /\ IsBlankText(full_text)) => segments = <<>>
    /\ (pc = "seg_done" /\ IsBlankText(text)) => all_chunks = <<>>

C11_Witness ==
    /\ pc = "tts_done"
    /\ Len(full_text) >= 3
    /\ IsBlankText(full_text)
    /\ \E i, j, k \in 1..Len(full_text) :
          full_text[i] = "\t" /\ full_text[j] = NL /\ full_text[k] = " "
    /\ segments = <<>>

RECURSIVE ParagraphModeChunks(_, _)
\* each paragraph that fits as one chunk, each longer one as mode "sentence"
\* segments it on its own
ParagraphModeChunks(paragraphs, maxc) ==
    IF paragraphs = <<>> THEN <<>>
    ELSE (IF Len(Head(paragraphs)) <= maxc
          THEN <<Head(paragraphs)>>
          ELSE segment_text(Head(paragraphs), maxc, "sentence"))
         \o ParagraphModeChunks(Tail(paragraphs), maxc)

\* C18: in mode "paragraph" every paragraph of length <= max_chars is one
\* chunk, the trimmed paragraph, and a longer paragraph is segmented as it
\* would be in mode "sentence".
C18_ParagraphMode ==
    (pc = "tts_done" /\ mode = "paragraph") =>
        segments = ParagraphModeChunks(tts_paragraphs(full_text), max_chars)

\* a paragraph that fits, emitted whole, and a paragraph that does not fit
C18_Witness ==
    /\ pc = "tts_done" /\ mode = "paragraph"
    /\ LET paragraphs == tts_paragraphs(full_text)
       IN  /\ \E i \in 1..Len(paragraphs) :
                 /\ Len(paragraphs[i]) <= max_chars
                 /\ \E k \in 1..Len(segments) : segments[k] = paragraphs[i]
           /\ \E i \in 1..Len(paragraphs) : Len(paragraphs[i]) > max_chars
    /\ Len(segments) >= 2

RECURSIVE MaximalPack(_, _, _)
\* the packing that closes the chunk cur before the next sentence only when
\* cur, one space and that sentence together are longer than maxc
MaximalPack(sentences, cur, maxc) ==
    IF sentences = <<>> THEN <<cur>>
    ELSE IF Len(cur) + 1 + Len(Head(sentences)) <= maxc
         THEN MaximalPack(Tail(sentences), cur \o <<" ">> \o Head(sentences), maxc)
    ELSE <<cur>> \o MaximalPack(Tail(sentences), Head(sentences), maxc)

\* a paragraph with at least two sentences, none longer than maxc
PackableParagraph(para, maxc) ==
    LET sentences == _split_sentences(para)
    IN  /\ Len(sentences) >= 2
        /\ \A k \in 1..Len(sentences) : Len(sentences[k]) <= maxc

\* C21: in mode "sentence" the packing is maximal: a chunk is closed before
\* the next sentence of its paragraph only if that sentence, joined by one
\* space, would make the chunk longer than max_chars; sentences whose joined
\* length is exactly max_chars are packed into one chunk.
C21_GreedyPackingMaximal ==
    (pc = "tts_done" /\ mode = "sentence") =>
        \A para \in Range(tts_paragraphs(full_text)) :
            PackableParagraph(para, max_chars) =>
                segment_paragraph(para, <<>>, max_chars, mode)
                    = MaximalPack(Tail(_split_sentences(para)),
                                  Head(_split_sentences(para)), max_chars)

RECURSIVE ChunksByParagraph(_, _, _)
\* the chunks of each paragraph segmented on its own, one paragraph after
\* the other
ChunksByParagraph(paragraphs, maxc, md) ==
    IF paragraphs = <<>> THEN <<>>
    ELSE segment_paragraph(Head(paragraphs), <<>>, maxc, md)
         \o ChunksByParagraph(Tail(paragraphs), maxc, md)

NonWsPlaces(src) == SelectSeq([i \in 1..Len(src) |-> i], LAMBDA i : ~IsSpace(src[i]))

\* the boundary after chunk k splits the source directly before or after a
\* comma that a digit follows
SplitsNumberComma(src, cs, k) ==
    LET places == NonWsPlaces(src)
        n == Len(NonWs(Concat(SubSeq(cs, 1, k))))
    IN  /\ n >= 1 /\ n < Len(places)
        /\ LET p == places[n]
               q == places[n+1]
           IN  /\ q = p + 1
               /\ \/ src[p] = "," /\ IsDigit(src[q])
                  \/ src[q] = "," /\ q < Len(src) /\ IsDigit(src[q+1])

NoSplitAtNumberComma(src, cs) ==
    \A k \in 1..Len(cs)-1 : ~SplitsNumberComma(src, cs, k)

ChunkTexts(cs) == [k \in 1..Len(cs) |-> cs[k][1]]

\* C8: no segmentation path places a chunk boundary at a comma that a digit
\* immediately follows, in textseg and in tts_common alike.
C8_NoSplitAtNumberComma ==
    /\ pc = "tts_done" => NoSplitAtNumberComma(full_text, segments)
    /\ (pc = "seg_done"
        /\ NonWs(Concat(ChunkTexts(all_chunks))) = NonWs(text))
           => NoSplitAtNumberComma(text, ChunkTexts(all_chunks))

\* C10: no emitted chunk is empty or only whitespace, in tts_common.segment_text
\* (both modes) and in textseg.segment_text.
C10_NoBlankChunk ==
    /\ pc = "tts_done" => \A k \in 1..Len(segments) : strip(segments[k]) # <<>>
    /\ pc = "seg_done" => \A k \in 1..Len(all_chunks) : strip(all_chunks[k][1]) # <<>>

(***************************************************************************)
(* Properties of textseg.segment_text                                      *)
(***************************************************************************)
RECURSIVE ChunksUpTo(_, _)
\* how many chunks the first i paragraphs contribute to all_chunks
ChunksUpTo(paragraphs, i) ==
    IF i = 0 THEN 0
    ELSE ChunksUpTo(paragraphs, i-1) + Len(split_sentences(paragraphs[i]))

\* C7: the last chunk of each paragraph but the last is tagged 'long' and the
\* last chunk of the whole document is tagged 'none'.
C7_ParagraphEndTags ==
    pc = "seg_done" =>
        LET paragraphs == split_paragraphs(text)
        IN  /\ \A i \in 1..Len(paragraphs)-1 :
                   ChunksUpTo(paragraphs, i) > ChunksUpTo(paragraphs, i-1)
                       => all_chunks[ChunksUpTo(paragraphs, i)][2] = "long"
            /\ all_chunks # <<>> => all_chunks[Len(all_chunks)][2] = "none"

\* the text before place n ends with the token a, which starts a word
EndsWithToken(s, n, a) ==
    /\ n - 1 >= Len(a)
    /\ lower(SubSeq(s, n - Len(a), n - 1)) = lower(a)
    /\ (n - Len(a) = 1 \/ ~IsWord(s[n - Len(a) - 1]))

\* the period at place n follows the digits of a decimal number: digits, a
\* period, digits
FollowsDecimal(s, n) ==
    /\ n >= 4 /\ IsDigit(s[n-1])
    /\ LET brk == {j \in 1..n-1 : ~IsDigit(s[j])}
       IN  /\ brk # {} /\ s[Max(brk)] = "."
           /\ Max(brk) >= 2 /\ IsDigit(s[Max(brk) - 1])

\* the sentence boundaries C9 states for the normalised paragraph s
StatedBoundaries(s) ==
    {p \in 1..Len(s) :
        /\ SentenceMatchEnd(s, p) # 0
        /\ \/ s[p] \in {"!", "?"}
           \/ ~ \/ \E a \in ABBREVIATIONS : EndsWithToken(s, p, a)
                \/ p >= 2 /\ IsUpper(s[p-1]) /\ (p = 2 \/ ~IsWord(s[p-2]))
                \/ FollowsDecimal(s, p)}

\* C9: the sentence boundaries of split_sentences are exactly: every '!' or
\* '?' followed (after closing quotes or brackets) by whitespace, and every
\* '.' so followed unless it follows an abbreviation of the fixed set, a
\* single uppercase letter or the digits of a decimal number; a '.' after an
\* integer or any other word is a boundary.
C9_SentenceBoundaries ==
    pc = "seg_done" =>
        LET paragraphs == split_paragraphs(text)
        IN  \A i \in 1..Len(paragraphs) :
                Range(valid_splits[i])
                    = StatedBoundaries(normalize_whitespace(strip(paragraphs[i])))

\* a comma of s that is not followed by a digit
IsSplitComma(s, p) == s[p] = "," /\ (p = Len(s) \/ ~IsDigit(s[p+1]))

\* s has text, other than whitespace and such commas, at place i
IsTextAt(s, i) == ~IsSpace(s[i]) /\ ~IsSplitComma(s, i)

HasSplitComma(s) == \E p \in 1..Len(s) : IsSplitComma(s, p)

\* a comma not followed by a digit with text before it and text after it
HasEmbeddedComma(s) ==
    \E p \in 1..Len(s) :
        /\ IsSplitComma(s, p)
        /\ \E i \in 1..p-1 : IsTextAt(s, i)
        /\ \E j \in p+1..Len(s) : IsTextAt(s, j)

\* s without its whitespace and its commas
Letters(s) == SelectSeq(s, LAMBDA c : ~IsSpace(c) /\ c # ",")

\* two or more chunks, in source order, each tagged 'short' except the last
SplitAtCommas(e) ==
    /\ Len(e.chunks) >= 2
    /\ \A j \in 1..Len(e.chunks)-1 : e.chunks[j][2] = "short"
    /\ Letters(Concat([j \in 1..Len(e.chunks) |-> e.chunks[j][1]]))
          = Letters(e.sentence)

\* C19 as stated: a sentence of more than 600 characters with at least one
\* comma not followed by a digit is emitted as two or more chunks in source
\* order, each tagged 'short' except the last.
C19_LongSentenceSplit ==
    pc = "seg_done" =>
        \A k \in 1..Len(sentence_chunks) :
            \A n \in 1..Len(sentence_chunks[k]) :
                LET e == sentence_chunks[k][n]
                IN  (py_len(e.sentence) > LongSentence /\ HasSplitComma(e.sentence))
                        => SplitAtCommas(e)

\* C19, amended: a sentence of more than 600 characters with a comma not
\* followed by a digit that has text before it and text after it is emitted
\* as two or more chunks in source order, each tagged 'short' except the
\* last.
C19_LongSentenceSplitAtEmbeddedComma ==
    pc = "seg_done" =>
        \A k \in 1..Len(sentence_chunks) :
            \A n \in 1..Len(sentence_chunks[k]) :
                LET e == sentence_chunks[k][n]
                IN  (py_len(e.sentence) > LongSentence /\ HasEmbeddedComma(e.sentence))
                        => SplitAtCommas(e)

\* a sentence of more than 600 characters, followed by another sentence,
\* that was split at its comma
C19_Witness ==
    /\ pc = "seg_done"
    /\ Len(sentence_chunks) = 1 /\ Len(sentence_chunks[1]) >= 2
    /\ valid_splits[1] # <<>>
    /\ LET e == sentence_chunks[1][1]
       IN  /\ py_len(e.sentence) > LongSentence
           /\ HasEmbeddedComma(e.sentence)
           /\ Len(e.chunks) >= 2
           /\ e.chunks[1][2] = "short"

\* the place in all_chunks of chunk j of sentence n of paragraph k
PlaceOfChunk(paragraphs, k, n, j) ==
    ChunksUpTo(paragraphs, k-1)
        + Len(chunks_of_log(SubSeq(sentence_chunks[k], 1, n-1))) + j

\* C24: every chunk that ends at a sentence boundary and is not the last
\* chunk of its paragraph is tagged 'medium', every chunk that ends at a
\* comma split is tagged 'short', and 'none' is the tag of no chunk other
\* than the last chunk of the document.
C24_PauseTags ==
    pc = "seg_done" =>
        LET paragraphs == split_paragraphs(text)
        IN  /\ \A k \in 1..Len(sentence_chunks) :
                 \A n \in 1..Len(sentence_chunks[k]) :
                    LET e == sentence_chunks[k][n]
                    IN  \A j \in 1..Len(e.chunks) :
                           LET place == PlaceOfChunk(paragraphs, k, n, j)
                           IN  /\ (j = Len(e.chunks)
                                   /\ place < ChunksUpTo(paragraphs, k))
                                      => all_chunks[place][2] = "medium"
                               /\ j < Len(e.chunks)
                                      => all_chunks[place][2] = "short"
            /\ \A place \in 1..Len(all_chunks)-1 :
                  all_chunks[place][2] # "none"

(***************************************************************************)
(* Properties of tts_common.build_track                                    *)
(***************************************************************************)
\* the build of the same chunks with speed 1.0: the unadjusted duration
UnadjustedLen == build_track_len(chunks, [opts EXCEPT !.speed = 1000])

\* C3: with speed != 1.0 the output lasts the unadjusted duration times
\* 1/speed, up to a millisecond of rounding: shorter for a speed above 1.0,
\* longer for a speed below 1.0.
C3_SpeedScalesDuration ==
    (pc = "bt_done" /\ chunks # <<>> /\ opts.speed # 1000) =>
        /\ Abs(track.len * opts.speed - UnadjustedLen * 1000) <= opts.speed
        /\ (opts.speed > 1000 /\ UnadjustedLen >= 100) => track.len < UnadjustedLen
        /\ (opts.speed < 1000 /\ UnadjustedLen >= 100) => track.len > UnadjustedLen

\* the configured duration of a pause tag, in ms
PauseOfTag(tag) ==
    CASE tag = "short" -> int_ms(opts.pause_short)
      [] tag = "medium" -> int_ms(opts.pause_medium)
      [] tag = "long" -> int_ms(opts.pause_long)
      [] OTHER -> 0

\* C4: a silence gap inserted before a chunk lasts what the pause tag of that
\* boundary is configured to: pause_short, pause_medium, pause_long, or zero
\* for none.
C4_GapFollowsPauseTag ==
    \A j \in 1..Len(applied) :
        applied[j].op = "gap" =>
            applied[j].ms = PauseOfTag(pause_plan[applied[j].i - 1])

AllChunksLast(d) == \A k \in 1..Len(chunks) : chunks[k].len = d

\* the case of C5: no crossfade, speed 1.0, normalize off, equal chunks
PlainEqualBuild ==
    /\ pc = "bt_done" /\ Len(chunks) >= 1
    /\ opts.crossfade_ms = 0 /\ opts.speed = 1000 /\ ~opts.normalize
    /\ AllChunksLast(chunks[1].len)

\* C5: without crossfade, speed change or normalization, N chunks of duration
\* D with pause P (pause_medium) make a track within 50 ms of N*D + (N-1)*P;
\* a single chunk makes a track of duration D.
C5_PlainDuration ==
    PlainEqualBuild =>
        LET n == Len(chunks)
            d == chunks[1].len
            pause == int_ms(opts.pause_medium)
        IN  /\ Abs(track.len - (n * d + (n - 1) * pause)) <= 50
            /\ n = 1 => track.len = d

\* three equal chunks were joined with two pauses of more than 50 ms
C5_Witness ==
    /\ PlainEqualBuild
    /\ Len(chunks) >= 3
    /\ int_ms(opts.pause_medium) > 50
    /\ Len(SelectSeq(applied, LAMBDA e : e.op = "gap")) = Len(chunks) - 1

\* the case of C6: a crossfade and at least two chunks, each longer than it
CrossfadeBuild ==
    /\ pc = "bt_done" /\ Len(chunks) >= 2
    /\ opts.crossfade_ms > 0
    /\ \A k \in 1..Len(chunks) : chunks[k].len > opts.crossfade_ms

\* what C6 states of a crossfade build: it is shorter than the build with
\* crossfade_ms = 0 by (N-1)*C plus the N-1 pause gaps, and holds no gap
CrossfadeShortens ==
    LET n == Len(chunks)
        plain == build_track_len(chunks, [opts EXCEPT !.crossfade_ms = 0])
    IN  /\ track.len < plain
        /\ plain - track.len
             = (n - 1) * opts.crossfade_ms + (n - 1) * int_ms(opts.pause_medium)
        /\ \A j \in 1..Len(applied) : applied[j].op # "gap"

C14_EmptyBuildIsSilent ==
    (chunks = <<>> /\ pc \in {"bt_loop", "bt_speed", "bt_normalize",
                               "bt_done", "bt_raised"})
        => (pc = "bt_done" /\ track.len = 0 /\ applied = <<>>)

C14_Witness ==
    /\ pc = "bt_done" /\ chunks = <<>>
    /\ opts.fade_ms > 0 /\ opts.crossfade_ms > 0 /\ opts.pause_medium > 0
    /\ opts.speed # 1000 /\ opts.normalize
    /\ track.len = 0

\* the stage of build_track an entry of the log belongs to
StageOf(op) ==
    IF op = "fade" THEN 1
    ELSE IF op \in {"first", "crossfade", "gap"} THEN 2
    ELSE IF op \in {"warn", "speed"} THEN 3
    ELSE 4

IsJoin(op) == op \in {"first", "crossfade", "gap"}

\* C15: build_track applies per-chunk fade, then the joining of the chunks
\* (first chunk, crossfade or gap), then the speed adjustment, then
\* normalization: a chunk is faded before it is joined, every chunk is
\* joined before the speed is adjusted, and normalization, when requested,
\* is applied once, to the whole track, after everything else.
C15_TransformationOrder ==
    /\ \A a, b \in 1..Len(applied) :
          a < b =>
            \* chunk k is handled before chunk k+1, its fade before its join
            /\ (StageOf(applied[a].op) <= 2 /\ StageOf(applied[b].op) <= 2)
                  => \/ applied[a].i < applied[b].i
                     \/ /\ applied[a].i = applied[b].i
                        /\ applied[a].op = "fade" /\ IsJoin(applied[b].op)
            \* joining, then speed, then normalization
            /\ (StageOf(applied[a].op) >= 3 \/ StageOf(applied[b].op) >= 3)
                  => StageOf(applied[a].op) <= StageOf(applied[b].op)
            /\ applied[a].op = "normalize" => applied[b].op # "normalize"
            /\ applied[a].op = "speed" => applied[b].op # "speed"
    /\ (pc = "bt_done" /\ chunks # <<>>) =>
          /\ \A k \in 1..Len(chunks) :
                \E a \in 1..Len(applied) : IsJoin(applied[a].op) /\ applied[a].i = k
          /\ opts.fade_ms > 0 =>
                \A k \in 1..Len(chunks) :
                   \E a \in 1..Len(applied) :
                      applied[a].op = "fade" /\ applied[a].i = k
          /\ speed_differs(opts.speed) <=>
                \E a \in 1..Len(applied) : applied[a].op = "speed"
          /\ opts.normalize <=>
                (applied # <<>> /\ applied[Len(applied)].op = "normalize")

\* a finished build that faded, joined with a crossfade and with a gap,
\* adjusted the speed and normalized
C15_Witness ==
    /\ pc = "bt_done" /\ Len(chunks) = 3
    /\ opts.fade_ms > 0 /\ opts.normalize /\ speed_differs(opts.speed)
    /\ \E a, b \in 1..Len(applied) :
          applied[a].op = "crossfade" /\ applied[b].op = "gap"
    /\ applied[Len(applied)].op = "normalize"
    /\ applied[Len(applied) - 1].op = "speed"

\* the joins among what one pass of the loop applied
JoinsOfPass ==
    SelectSeq(SubSeq(applied', Len(applied) + 1, Len(applied')),
              LAMBDA e : e.op \in {"crossfade", "gap"})

\* C22: at every boundary between consecutive chunks exactly one of crossfade
\* and silence gap is applied: the crossfade when crossfade_ms > 0 and the
\* accumulated track is at least crossfade_ms long (its length equal to
\* crossfade_ms included), otherwise the gap followed by the chunk.
C22_CrossfadeOrGap ==
    [][(pc = "bt_loop" /\ chunk_i >= 2 /\ pc' # "bt_raised") =>
          /\ Len(JoinsOfPass) = 1
          /\ JoinsOfPass[1].i = chunk_i
          /\ JoinsOfPass[1].op =
                IF opts.crossfade_ms > 0 /\ track.len >= opts.crossfade_ms
                THEN "crossfade" ELSE "gap"]_vars

\* C23: build_track never fails because a crossfade cannot be made: when
\* crossfade_ms > 0 and the incoming chunk or the accumulated track is
\* shorter than crossfade_ms, the boundary falls back to the silence gap, and
\* the build completes for every list of chunks.
C23_BuildNeverFails ==
    /\ pc # "bt_raised"
    /\ pc = "bt_done" =>
          \A a \in 1..Len(applied) :
             applied[a].op = "crossfade" =>
                chunks[applied[a].i].len >= opts.crossfade_ms

(***************************************************************************)
(* Properties of tts_common.match_volume                                   *)
(***************************************************************************)
\* |rms(audio1) - rms(audio2)| as the code computes it
LevelDiff == fabs(fsub(audio1.dBFS, audio2.dBFS))

\* C12: when |rms(a) - rms(b)| <= max_diff_db, match_volume returns both
\* inputs as they were given, with no gain applied to either.
C12_WithinToleranceUnchanged ==
    (pc = "mv_done" /\ LevelDiff.kind = "num" /\ LevelDiff.v <= max_diff_db)
        => matched = <<audio1, audio2>>

\* two different levels exactly max_diff_db apart
C12_Witness ==
    /\ pc = "mv_done"
    /\ LevelDiff.kind = "num" /\ LevelDiff.v = max_diff_db /\ max_diff_db > 0
    /\ matched = <<audio1, audio2>>

\* C13: when |rms(a) - rms(b)| > max_diff_db, the quieter track and only it
\* is given one gain of exactly min(|rms(a) - rms(b)|, 6.0) dB; the louder
\* track is returned as given and the gain is never above 6 dB.
C13_QuieterBoostedCapped ==
    (pc = "mv_done" /\ flt(Num(max_diff_db), LevelDiff)) =>
        LET gain == IF LevelDiff.kind = "num" /\ LevelDiff.v < GainCap
                    THEN LevelDiff ELSE Num(GainCap)
        IN  /\ gain.v <= GainCap
            /\ flt(audio1.dBFS, audio2.dBFS) =>
                   /\ matched[1] = apply_gain(audio1, gain)
                   /\ matched[2] = audio2
            /\ flt(audio2.dBFS, audio1.dBFS) =>
                   /\ matched[2] = apply_gain(audio2, gain)
                   /\ matched[1] = audio1
            /\ flt(audio1.dBFS, audio2.dBFS) \/ flt(audio2.dBFS, audio1.dBFS)

\* the second track is quieter by more than 6 dB: the gain is capped
C13_Witness ==
    /\ pc = "mv_done"
    /\ LevelDiff.kind = "num" /\ LevelDiff.v > GainCap
    /\ LevelDiff.v > max_diff_db
    /\ flt(audio2.dBFS, audio1.dBFS)
    /\ matched[2].gains = <<Num(GainCap)>>
    /\ matched[1] = audio1

(***************************************************************************)
(* Properties of prepare_tts_text.main                                     *)
(***************************************************************************)
\* a pause configuration with short, medium and long all present, numbers
\* and within [0.0, 3.0]
StatedValidPause(cfg) ==
    \A key \in {"short", "medium", "long"} :
        /\ key \in DOMAIN cfg
        /\ cfg[key].type \in {"int", "float"}
        /\ 0 <= cfg[key].v /\ cfg[key].v <= 30

\* C16: when one of short, medium, long is missing, not a number or outside
\* [0.0, 3.0], main returns a non-zero status without reading the input,
\* segmenting it or creating a manifest; when all three are numbers within
\* [0.0, 3.0] the validation passes.
C16_InvalidPauseRejected ==
    (pc \in {"pp_read", "pp_segment", "pp_write", "pp_done"}
       /\ "config_loaded" \in effects) =>
        IF StatedValidPause(pause_cfg)
        THEN "validated" \in effects
        ELSE /\ pc = "pp_done" /\ status = 1
             /\ effects \cap {"validated", "input_read", "segmented",
                               "manifest_created"} = {}
             /\ manifest = <<>>

RECURSIVE WordsOf(_)
\* the words of a text in order: its maximal runs of word characters
WordsOf(s) ==
    IF s = <<>> THEN <<>>
    ELSE IF ~IsWord(s[1]) THEN WordsOf(Tail(s))
    ELSE LET e == RunEnd(s, 1, {c \in Range(s) : IsWord(c)})
         IN  <<SubSeq(s, 1, e)>> \o WordsOf(SubSeq(s, e+1, Len(s)))

\* the texts of the manifest's lines, one after the other
ManifestText == JoinSpace([k \in 1..Len(manifest) |-> manifest[k].text])

ManifestWritten ==
    pc = "pp_done" /\ status = 0 /\ "manifest_created" \in effects

\* C17: the manifest holds the chunks in source order with indices 1..n,
\* and their texts together hold every word of the input exactly once.
C17_ManifestKeepsEveryWord ==
    ManifestWritten =>
        /\ \A k \in 1..Len(manifest) : manifest[k].idx = k
        /\ WordsOf(ManifestText) = WordsOf(pp_text)

\* what holds of the code: the words are kept when no chunk is shorter than
\* --min-chars
ManifestKeepsWordsOfLongChunks ==
    (ManifestWritten /\ min_chars = 0) =>
        /\ \A k \in 1..Len(manifest) : manifest[k].idx = k
        /\ WordsOf(ManifestText) = WordsOf(pp_text)

\* the places of the manifest lines tagged 'long'
LongEntries == {j \in 1..Len(manifest) : manifest[j].pause_after = "long"}

\* C28: every paragraph break of the input survives in the manifest as a
\* 'long' pause: for k non-empty paragraphs the manifest has exactly k-1
\* lines tagged 'long', each the last line of its paragraph, so that the
\* logged paragraph count (lines tagged 'long' + 1) is k.
C28_ParagraphBreaksSurvive ==
    ManifestWritten =>
        LET paragraphs == split_paragraphs(pp_text)
        IN  /\ Cardinality(LongEntries) = Len(paragraphs) - 1
            /\ \A j \in LongEntries :
                  LET n == Cardinality({i \in LongEntries : i <= j})
                  IN  WordsOf(JoinSpace([k \in 1..j |-> manifest[k].text]))
                          = WordsOf(JoinSpace(SubSeq(paragraphs, 1, n)))

(***************************************************************************)
(* Properties of tts_common.measure                                        *)
(***************************************************************************)
\* C20: measure of a zero-length track returns a silence ratio of exactly 0,
\* and for every track the silence ratio is a number within [0, 100].
C20_SilenceRatioDefined ==
    pc = "ms_done" =>
        /\ audio.len = 0 => metrics.silence_ratio = 0
        /\ metrics.silence_ratio \in 0..10000

C20_Witness ==
    /\ pc = "ms_done" /\ audio.len = 0
    /\ metrics.silence_ratio = 0 /\ metrics.duration_sec = 0

\* a track with two silent ranges and sound between them
TwoSilentRanges ==
    /\ pc = "ms_done"
    /\ Len(detect_silence(audio.len, silent_slices)) = 2
    /\ metrics.silence_ratio < 10000


(***************************************************************************)
(* Properties of openai_tts.generate_tts                                   *)
(***************************************************************************)
\* the track as audio pieces and silences: <<"audio", 0>> or <<"silence", ms>>
PlanOf(pieces) ==
    [k \in 1..Len(pieces) |->
        IF pieces[k].op = "silence" THEN <<"silence", pieces[k].ms>>
        ELSE <<"audio", 0>>]

RECURSIVE StatedParagraph(_, _)
\* n sentences with a medium pause between every two of them
StatedParagraph(n, o) ==
    IF n = 0 THEN <<>>
    ELSE IF n = 1 THEN << <<"audio", 0>> >>
    ELSE << <<"audio", 0>>, <<"silence", int_ms(o.pause_medium)>> >>
         \o StatedParagraph(n - 1, o)

RECURSIVE StatedTrack(_, _)
\* the paragraphs with a long pause between every two of them
StatedTrack(paragraphs, o) ==
    IF paragraphs = <<>> THEN <<>>
    ELSE StatedParagraph(Len(oa_split_sentences(Head(paragraphs))), o)
         \o (IF Len(paragraphs) > 1
             THEN << <<"silence", int_ms(o.pause_long)>> >> ELSE <<>>)
         \o StatedTrack(Tail(paragraphs), o)

\* C25: build_audio_with_pauses puts exactly pause_medium of silence between
\* every two consecutive sentences of a paragraph, exactly pause_long (and
\* no medium pause) between the last sentence of a paragraph and the first
\* of the next, and no silence after the last sentence of the last paragraph.
C25_PausesBetweenSentences ==
    pc \in {"oa_post", "oa_export", "oa_done"} =>
        PlanOf(oa_track) = StatedTrack(oa_split_paragraphs(oa_text), oa_opts)

\* C26: a failure of the synthesis call for a segment is not absorbed: no
\* output file is written in which substitute audio stands for a segment.
C26_SynthesisFailureNotAbsorbed ==
    \A f \in Range(oa_output) :
        \A k \in 1..Len(f.track) : f.track[k].op # "substitute"

(***************************************************************************)
(* Properties of compare_tts.main                                          *)
(***************************************************************************)
\* C29: once piper_ok is computed it is true only if the Piper process of
\* this invocation wrote a non-empty piper.wav: what is volume-matched into
\* piper_match.wav, compared in the report and mixed into the AB file is
\* never the piper.wav of an earlier run
C29_PiperOkOnlyForThisRun ==
    pc \in {"cmp_match", "cmp_report", "cmp_ab", "cmp_done"} =>
        /\ cmp_piper_ok => cmp_outdir.piper_wav = "this"
        /\ cmp_outdir.piper_match \in {"absent", "this"}
        /\ cmp_report # <<>> /\ cmp_report.comparison
               => cmp_outdir.piper_wav = "this"
        /\ cmp_outdir.ab_mix \in {"absent", "this"}

\* C30: every option of openai_cmd and of piper_cmd is declared by the parser
\* of the script it is passed to, and with openai_tts.py of this repository,
\* an input file that exists and has text, and an OpenAI engine that works,
\* main gets past the OpenAI command to the volume matching
C30_PassedOptionsDeclared ==
    (/\ pc \notin {"cmp_ready", "cmp_openai"}
     /\ cmp_env.openai_script = "repository"
     /\ cmp_env.input_exists /\ ~cmp_env.text_blank /\ cmp_env.api_key
     /\ cmp_env.pause_profile \in PauseProfileChoices)
        => /\ OpenaiCmdOptions \subseteq OpenaiTtsOptions
           /\ PiperCmdOptions \subseteq PiperTtsOptions
           /\ pc # "cmp_raised"

====
